---- MODULE Spec2Model ----
(***************************************************************************)
(* A model of python-multipart's streaming parsers: the byte-driven state   *)
(* machines of python_multipart/multipart.py (OctetStreamParser,            *)
(* QuerystringParser, MultipartParser), the FormParser coordinator and the  *)
(* transfer decoders of multipart/decoders.py.                              *)
(*                                                                          *)
(* Bytes are their integer codes; a byte string is a sequence of codes.     *)
(* Python's 0-based offsets are kept: data[i] of the source is At(data, i). *)
(* A write is one atomic action: the whole while-loop of _internal_write    *)
(* is folded by a recursive operator over the loop's locals.                *)
(***************************************************************************)
EXTENDS Integers, Sequences, FiniteSets, TLC

VARIABLES
    body,      \* the byte stream the caller is going to offer, in order
    offered,   \* number of bytes of body handed to write() so far
    log,       \* events delivered so far, adjacent data events of a name merged
    retsum,    \* sum of the values returned by write()
    raised,    \* <<>> or <<offset>>: the ParseError the last write raised
    last,      \* the last write or finalize of an OctetStreamParser or
               \* QuerystringParser, [op, buf, before (the parser before the
               \* call), evs, ret]; of a FormParser, its finalize
    mp,        \* the MultipartParser object
    oct,       \* the OctetStreamParser object
    qs,        \* the QuerystringParser object
    parts,     \* the parts the body of a multipart form was built from
    form,      \* the FormParser object (multipart/form-data)
    objs,      \* the Field and File objects the FormParser created, in order
    calls      \* the invocations of on_field, on_file and on_end, in order

envvars == <<body, offered, log, retsum, raised, last>>
formvars == <<parts, form, objs, calls>>
vars == <<body, offered, log, retsum, raised, last, mp, oct, qs, parts, form, objs, calls>>

----------------------------------------------------------------------------
(* Byte constants and flag bits.                                            *)

CR == 13
LF == 10
COLON == 58
SPACE == 32
HYPHEN == 45
AMPERSAND == 38
SEMICOLON == 59
EQUALS == 61
FLAG_PART_BOUNDARY == 1
FLAG_LAST_BOUNDARY == 2

LOWER_A == 97

\* other bytes used in inputs: 'b' and 'x'
LOWER_B == LOWER_A + 1
LOWER_X == LOWER_A + 23

\* mutant: letters and digits only
TOKEN_CHARS_SET_alnum == (65..90) \cup (97..122) \cup (48..57)

TOKEN_CHARS_SET ==
    (65..90) \cup (97..122) \cup (48..57)
    \cup {33, 35, 36, 37, 38, 39, 42, 43, 45, 46, 94, 95, 96, 124, 126}

\* float("inf"), the default max_size
Inf == -1

----------------------------------------------------------------------------
(* Python helpers.                                                          *)

Max(a, b) == IF a >= b THEN a ELSE b
Min(a, b) == IF a <= b THEN a ELSE b

\* data[i], 0-based
At(data, i) == data[i + 1]

\* data[a:b] for 0 <= a; b is clamped to len(data) as Python does
Slice(data, a, b) == SubSeq(data, a + 1, Min(b, Len(data)))

\* bytes.find(pat, lo, hi): least offset >= lo of pat inside data[lo:hi], or -1
Find(data, pat, lo, hi) ==
    LET top == Min(hi, Len(data))
        hits == {k \in lo..(top - Len(pat)) :
                    \A j \in 1..Len(pat) : data[k + j] = pat[j]}
    IN  IF hits = {} THEN -1 ELSE CHOOSE k \in hits : \A m \in hits : k <= m

HasFlag(flags, bit) == (flags \div bit) % 2 = 1
SetFlag(flags, bit) == IF HasFlag(flags, bit) THEN flags ELSE flags + bit
ClearFlag(flags, bit) == IF HasFlag(flags, bit) THEN flags - bit ELSE flags

----------------------------------------------------------------------------
(* BaseParser.callback: an event is [name, data]; a data callback with an   *)
(* empty slice (start = end) is not delivered.                              *)

DataEvents ==
    {"data", "field_name", "field_data", "header_field", "header_value", "part_data"}

Notify(evs, name) == Append(evs, [name |-> name, data |-> <<>>])

Emit(evs, name, buf, start, end) ==
    IF start = end THEN evs
    ELSE Append(evs, [name |-> name, data |-> Slice(buf, start, end)])

\* the caller's view of the events: adjacent data events of one name merged
AppendMerged(lg, ev) ==
    IF /\ Len(lg) > 0
       /\ ev.name \in DataEvents
       /\ lg[Len(lg)].name = ev.name
    THEN [lg EXCEPT ![Len(lg)].data = @ \o ev.data]
    ELSE Append(lg, ev)

\* (a value that is used more than once is bound through a singleton set,
\* here and below, so that it is computed once)
RECURSIVE MergeInto(_, _)
MergeInto(lg, evs) ==
    IF evs = <<>> THEN lg
    ELSE CHOOSE r \in {MergeInto(l, t) : l \in {AppendMerged(lg, Head(evs))},
                                         t \in {Tail(evs)}} : TRUE

EventNames(lg) == [k \in 1..Len(lg) |-> lg[k].name]

\* mutant: the chunk is never truncated to the cap
AcceptedLen_untruncated(cur, max_size, data_len) == data_len

\* max_size truncation of write(): the length handed to _internal_write
AcceptedLen(cur, max_size, data_len) ==
    IF max_size # Inf /\ cur + data_len > max_size THEN max_size - cur ELSE data_len

----------------------------------------------------------------------------
(* OctetStreamParser.                                                       *)

OctetStreamParserInit(max_size) ==
    [started |-> FALSE, max_size |-> max_size, current_size |-> 0]

\* mutant: start waits for the first write that carries data
OctetStreamWrite_start_on_data(p, data) ==
    LET fire == ~p.started /\ Len(data) > 0
        data_len == AcceptedLen(p.current_size, p.max_size, Len(data))
    IN  [parser |-> [p EXCEPT !.started = @ \/ fire, !.current_size = @ + data_len],
         evs |-> Emit(IF fire THEN Notify(<<>>, "start") ELSE <<>>,
                      "data", data, 0, data_len),
         ret |-> data_len]

\* write(data): [parser after the call, events, returned value]
OctetStreamWrite(p, data) ==
    LET evs0 == IF ~p.started THEN Notify(<<>>, "start") ELSE <<>>
        data_len == AcceptedLen(p.current_size, p.max_size, Len(data))
    IN  [parser |-> [p EXCEPT !.started = TRUE, !.current_size = @ + data_len],
         evs |-> Emit(evs0, "data", data, 0, data_len),
         ret |-> data_len]

OctetStreamFinalize(p) == [parser |-> p, evs |-> Notify(<<>>, "end")]

----------------------------------------------------------------------------
(* QuerystringParser.                                                       *)

QuerystringParserInit(strict_parsing, max_size) ==
    [state |-> "BEFORE_FIELD", found_sep |-> FALSE,
     strict_parsing |-> strict_parsing, max_size |-> max_size, current_size |-> 0]

\* sep_pos = data.find(b"&", i), or data.find(b";", i) when there is no '&':
\* the searches run to the end of data, not to length
SepPos(data, i) ==
    LET amp == Find(data, <<AMPERSAND>>, i, Len(data))
    IN  IF amp # -1 THEN amp ELSE Find(data, <<SEMICOLON>>, i, Len(data))

EqualsPos(data, i, sep_pos) ==
    IF sep_pos # -1 THEN Find(data, <<EQUALS>>, i, sep_pos)
    ELSE Find(data, <<EQUALS>>, i, Len(data))

\* one iteration of the while loop, the trailing i += 1 included; the locals
\* are L = [i, state, found_sep, evs, err]
QuerystringStep(L, data, length, strict_parsing) ==
    LET ch == At(data, L.i)
        sep_pos == SepPos(data, L.i)
        equals_pos == EqualsPos(data, L.i, sep_pos)
    IN
    CASE L.state = "BEFORE_FIELD" ->
           IF ch = AMPERSAND \/ ch = SEMICOLON THEN
             IF L.found_sep THEN
               IF strict_parsing THEN [L EXCEPT !.err = <<L.i>>]
               ELSE [L EXCEPT !.i = @ + 1]
             ELSE [L EXCEPT !.found_sep = TRUE, !.i = @ + 1]
           ELSE [L EXCEPT !.evs = Notify(@, "field_start"),
                          !.state = "FIELD_NAME",
                          !.found_sep = FALSE]
      [] L.state = "FIELD_NAME" ->
           IF equals_pos # -1 THEN
             [L EXCEPT !.evs = Emit(@, "field_name", data, L.i, equals_pos),
                       !.i = equals_pos + 1,
                       !.state = "FIELD_DATA"]
           ELSE IF ~strict_parsing THEN
             IF sep_pos # -1 THEN
               [L EXCEPT !.evs = Notify(Emit(@, "field_name", data, L.i, sep_pos),
                                        "field_end"),
                         !.i = sep_pos,
                         !.state = "BEFORE_FIELD"]
             ELSE [L EXCEPT !.evs = Emit(@, "field_name", data, L.i, length),
                            !.i = length + 1]
           ELSE
             IF sep_pos # -1 THEN [L EXCEPT !.err = <<L.i>>]
             ELSE [L EXCEPT !.evs = Emit(@, "field_name", data, L.i, length),
                            !.i = length + 1]
      [] L.state = "FIELD_DATA" ->
           IF sep_pos # -1 THEN
             [L EXCEPT !.evs = Notify(Emit(@, "field_data", data, L.i, sep_pos),
                                      "field_end"),
                       !.i = sep_pos,
                       !.state = "BEFORE_FIELD"]
           ELSE [L EXCEPT !.evs = Emit(@, "field_data", data, L.i, length),
                          !.i = length + 1]
      [] OTHER -> [L EXCEPT !.err = <<L.i>>]

RECURSIVE QuerystringLoop(_, _, _, _)
QuerystringLoop(L, data, length, strict_parsing) ==
    IF L.err # <<>> \/ L.i >= length THEN L
    ELSE CHOOSE r \in
           {QuerystringLoop(L1, data, length, strict_parsing) :
              L1 \in {QuerystringStep(L, data, length, strict_parsing)}} : TRUE

\* the value _internal_write returns
QuerystringReturn(data, length) == Len(data)

\* _internal_write(data, length): the locals at the return or at the raise
QuerystringInternalWrite(p, data, length) ==
    QuerystringLoop([i |-> 0, state |-> p.state, found_sep |-> p.found_sep,
                     evs |-> <<>>, err |-> <<>>],
                    data, length, p.strict_parsing)

\* write(data): [parser after the call, events, returned value, err]; when
\* _internal_write raises nothing is stored and _current_size grows by l = 0
QuerystringWriteResult(p, L, l) ==
    IF L.err # <<>>
    THEN [parser |-> p, evs |-> L.evs, ret |-> 0, err |-> L.err]
    ELSE [parser |-> [p EXCEPT !.state = L.state, !.found_sep = L.found_sep,
                               !.current_size = @ + l],
          evs |-> L.evs, ret |-> l, err |-> <<>>]

QuerystringWrite(p, data) ==
    CHOOSE r \in
      {QuerystringWriteResult(p, L, QuerystringReturn(data, n)) :
         n \in {AcceptedLen(p.current_size, p.max_size, Len(data))},
         L \in {QuerystringInternalWrite(p, data,
                    AcceptedLen(p.current_size, p.max_size, Len(data)))}} : TRUE

\* mutant: finalize reports field_end in every state
QuerystringFinalize_always_field_end(p) ==
    [parser |-> p, evs |-> Notify(Notify(<<>>, "field_end"), "end")]

QuerystringFinalize(p) ==
    [parser |-> p,
     evs |-> Notify(IF p.state = "FIELD_DATA" THEN Notify(<<>>, "field_end") ELSE <<>>,
                    "end")]

----------------------------------------------------------------------------
(* MultipartParser.                                                         *)

NoMarks == [header_field |-> <<>>, header_value |-> <<>>, part_data |-> <<>>]

MultipartParserInit(token, max_size) ==
    [state |-> "START", index |-> 0, flags |-> 0, marks |-> NoMarks,
     boundary |-> <<CR, LF, HYPHEN, HYPHEN>> \o token,
     max_size |-> max_size, current_size |-> 0]

\* the locals of one _internal_write call; err is <<>> or <<offset>>
Raise(L) == [L EXCEPT !.err = <<L.i>>]

set_mark(L, name) == [L EXCEPT !.marks[name] = <<L.i>>]

delete_mark(L, name) == [L EXCEPT !.marks[name] = <<>>]

\* mutant: the withheld bytes are taken from the boundary alone, so the CR or
\* '-' that followed a whole boundary is lost
Lookback_boundary_only(boundary, selfflags, lookbehind_len) ==
    Slice(boundary, 0, lookbehind_len)

\* the look-behind bytes re-emitted for a mark carried from the previous write
Lookback(boundary, selfflags, lookbehind_len) ==
    IF lookbehind_len <= Len(boundary) THEN Slice(boundary, 0, lookbehind_len)
    ELSE IF HasFlag(selfflags, FLAG_PART_BOUNDARY)
         THEN Slice(boundary \o <<CR, LF>>, 0, lookbehind_len)
    ELSE IF HasFlag(selfflags, FLAG_LAST_BOUNDARY)
         THEN Slice(boundary \o <<HYPHEN, HYPHEN, CR, LF>>, 0, lookbehind_len)
    ELSE <<>>

\* mutant: the mark kept for the next write is 0, not end_i - length
data_callback_mark_at_zero(L, name, end_i, remaining, data, length, boundary, selfflags) ==
    IF L.marks[name] = <<>> THEN L
    ELSE
      LET marked_index == L.marks[name][1]
          evs1 == IF end_i <= marked_index THEN L.evs
                  ELSE IF marked_index >= 0
                       THEN Emit(L.evs, name, data, marked_index, end_i)
                  ELSE LET lb == Lookback(boundary, selfflags, -marked_index)
                           e1 == Emit(L.evs, name, lb, 0, Len(lb))
                       IN  IF end_i > 0 THEN Emit(e1, name, data, 0, end_i) ELSE e1
      IN  [L EXCEPT !.evs = evs1,
                    !.marks[name] = IF remaining THEN <<0>> ELSE <<>>]

data_callback(L, name, end_i, remaining, data, length, boundary, selfflags) ==
    IF L.marks[name] = <<>> THEN L
    ELSE
      LET marked_index == L.marks[name][1]
          evs1 == IF end_i <= marked_index THEN L.evs
                  ELSE IF marked_index >= 0
                       THEN Emit(L.evs, name, data, marked_index, end_i)
                  ELSE LET lb == Lookback(boundary, selfflags, -marked_index)
                           e1 == Emit(L.evs, name, lb, 0, Len(lb))
                       IN  IF end_i > 0 THEN Emit(e1, name, data, 0, end_i) ELSE e1
      IN  [L EXCEPT !.evs = evs1,
                    !.marks[name] = IF remaining THEN <<end_i - length>> ELSE <<>>]

\* PART_DATA with index = 0: the find() of the whole boundary, or the naive
\* scan of the last len(boundary) bytes for boundary[0]; gives <<i, index>>
RECURSIVE ScanForward(_, _, _, _)
ScanForward(data, i, data_length, b0) ==
    IF i < data_length - 1 /\ At(data, i) # b0
    THEN ScanForward(data, i + 1, data_length, b0)
    ELSE i

BoundarySearch(data, i, data_length, boundary) ==
    LET i0 == Find(data, boundary, i, data_length)
    IN  IF i0 >= 0 THEN <<i0 + Len(boundary) - 1, Len(boundary) - 1>>
        ELSE <<ScanForward(data, Max(i, data_length - Len(boundary)),
                           data_length, boundary[1]), 0>>

\* mutant: the closing delimiter ends the body and not the part
PartDataMatch_end_without_part_end(L0, c, data, length, boundary, selfflags) ==
    IF L0.index < Len(boundary) THEN
      IF At(boundary, L0.index) = c THEN [L0 EXCEPT !.index = @ + 1]
      ELSE [L0 EXCEPT !.index = 0]
    ELSE IF L0.index = Len(boundary) THEN
      IF c = CR THEN
        [L0 EXCEPT !.index = @ + 1, !.flags = SetFlag(@, FLAG_PART_BOUNDARY)]
      ELSE IF c = HYPHEN THEN
        [L0 EXCEPT !.index = @ + 1, !.flags = SetFlag(@, FLAG_LAST_BOUNDARY)]
      ELSE [L0 EXCEPT !.index = 0]
    ELSE IF L0.index = Len(boundary) + 1 THEN
      IF HasFlag(L0.flags, FLAG_PART_BOUNDARY) THEN
        IF c = LF THEN
          [data_callback([L0 EXCEPT !.flags = ClearFlag(@, FLAG_PART_BOUNDARY)],
                         "part_data", L0.i - L0.index, FALSE,
                         data, length, boundary, selfflags)
             EXCEPT !.evs = Notify(Notify(@, "part_end"), "part_begin"),
                    !.index = 0,
                    !.state = "HEADER_FIELD_START",
                    !.cont = TRUE]
        ELSE [L0 EXCEPT !.index = 0, !.flags = ClearFlag(@, FLAG_PART_BOUNDARY)]
      ELSE IF HasFlag(L0.flags, FLAG_LAST_BOUNDARY) THEN
        IF c = HYPHEN THEN
          [data_callback(L0, "part_data", L0.i - L0.index, FALSE,
                         data, length, boundary, selfflags)
             EXCEPT !.evs = Notify(@, "end"),
                    !.state = "END"]
        ELSE [L0 EXCEPT !.index = 0]
      ELSE L0
    ELSE L0

\* PART_DATA, the three cases of index against len(boundary), with the
\* cursor i and index that the search left; cont is the source's `continue`
PartDataMatch(L0, c, data, length, boundary, selfflags) ==
    IF L0.index < Len(boundary) THEN
      IF At(boundary, L0.index) = c THEN [L0 EXCEPT !.index = @ + 1]
      ELSE [L0 EXCEPT !.index = 0]
    ELSE IF L0.index = Len(boundary) THEN
      IF c = CR THEN
        [L0 EXCEPT !.index = @ + 1, !.flags = SetFlag(@, FLAG_PART_BOUNDARY)]
      ELSE IF c = HYPHEN THEN
        [L0 EXCEPT !.index = @ + 1, !.flags = SetFlag(@, FLAG_LAST_BOUNDARY)]
      ELSE [L0 EXCEPT !.index = 0]
    ELSE IF L0.index = Len(boundary) + 1 THEN
      IF HasFlag(L0.flags, FLAG_PART_BOUNDARY) THEN
        IF c = LF THEN
          [data_callback([L0 EXCEPT !.flags = ClearFlag(@, FLAG_PART_BOUNDARY)],
                         "part_data", L0.i - L0.index, FALSE,
                         data, length, boundary, selfflags)
             EXCEPT !.evs = Notify(Notify(@, "part_end"), "part_begin"),
                    !.index = 0,
                    !.state = "HEADER_FIELD_START",
                    !.cont = TRUE]
        ELSE [L0 EXCEPT !.index = 0, !.flags = ClearFlag(@, FLAG_PART_BOUNDARY)]
      ELSE IF HasFlag(L0.flags, FLAG_LAST_BOUNDARY) THEN
        IF c = HYPHEN THEN
          [data_callback(L0, "part_data", L0.i - L0.index, FALSE,
                         data, length, boundary, selfflags)
             EXCEPT !.evs = Notify(Notify(@, "part_end"), "end"),
                    !.state = "END"]
        ELSE [L0 EXCEPT !.index = 0]
      ELSE L0
    ELSE L0

\* the end of the PART_DATA branch and the loop's i += 1: a reset of a partial
\* match (index back to 0 from prev_index > 0) re-consumes the current byte
PartDataAdvance(L1, prev_index) ==
    IF L1.cont THEN [L1 EXCEPT !.i = @ + 1, !.cont = FALSE]
    ELSE IF L1.index = 0 /\ prev_index > 0 THEN L1
    ELSE [L1 EXCEPT !.i = @ + 1]

PartDataStep(L, data, length, boundary, selfflags) ==
    CHOOSE r \in
      {PartDataAdvance(L1, L.index) :
         L1 \in {PartDataMatch([L EXCEPT !.i = found[1], !.index = found[2]],
                               At(data, found[1]), data, length, boundary, selfflags) :
                   found \in {IF L.index = 0
                              THEN BoundarySearch(data, L.i, length, boundary)
                              ELSE <<L.i, L.index>>}}} : TRUE
\* mutant: only CR is skipped before the first boundary
StartStep_cr_only(L, c) ==
    IF c = CR THEN [L EXCEPT !.i = @ + 1]
    ELSE [L EXCEPT !.index = 0, !.state = "START_BOUNDARY"]

\* state START: CR and LF are skipped; any other byte is looked at again in
\* START_BOUNDARY
StartStep(L, c) ==
    IF c = CR \/ c = LF THEN [L EXCEPT !.i = @ + 1]
    ELSE [L EXCEPT !.index = 0, !.state = "START_BOUNDARY"]

\* mutant: any byte after the CR of the opening boundary line is taken for LF
StartBoundaryStep_any_after_cr(L, c, boundary) ==
    IF L.index = Len(boundary) - 2 THEN
      IF c = HYPHEN
      THEN [L EXCEPT !.i = @ + 1, !.state = "END_BOUNDARY", !.index = @ + 1]
      ELSE IF c # CR THEN Raise(L)
      ELSE [L EXCEPT !.i = @ + 1, !.index = @ + 1]
    ELSE IF L.index = Len(boundary) - 2 + 1 THEN
      [L EXCEPT !.i = @ + 1,
                !.index = 0,
                !.evs = Notify(@, "part_begin"),
                !.state = "HEADER_FIELD_START"]
    ELSE
      IF c # At(boundary, L.index + 2) THEN Raise(L)
      ELSE [L EXCEPT !.i = @ + 1, !.index = @ + 1]

\* state START_BOUNDARY: '--' and the token (boundary without its CR LF), then
\* CR LF and the first part, or '-' and END_BOUNDARY
StartBoundaryStep(L, c, boundary) ==
    IF L.index = Len(boundary) - 2 THEN
      IF c = HYPHEN
      THEN [L EXCEPT !.i = @ + 1, !.state = "END_BOUNDARY", !.index = @ + 1]
      ELSE IF c # CR THEN Raise(L)
      ELSE [L EXCEPT !.i = @ + 1, !.index = @ + 1]
    ELSE IF L.index = Len(boundary) - 2 + 1 THEN
      IF c # LF THEN Raise(L)
      ELSE [L EXCEPT !.i = @ + 1,
                     !.index = 0,
                     !.evs = Notify(@, "part_begin"),
                     !.state = "HEADER_FIELD_START"]
    ELSE
      IF c # At(boundary, L.index + 2) THEN Raise(L)
      ELSE [L EXCEPT !.i = @ + 1, !.index = @ + 1]

\* mutant: the second '-' after the boundary ends the body without the event
EndBoundaryStep_silent(L, c, bl) ==
    IF L.index = bl - 2 + 1 THEN
      IF c # HYPHEN THEN Raise(L)
      ELSE [L EXCEPT !.i = @ + 1, !.index = @ + 1, !.state = "END"]
    ELSE [L EXCEPT !.i = @ + 1]

\* state END_BOUNDARY: the second '-' after the boundary; bl is len(boundary)
EndBoundaryStep(L, c, bl) ==
    IF L.index = bl - 2 + 1 THEN
      IF c # HYPHEN THEN Raise(L)
      ELSE [L EXCEPT !.i = @ + 1,
                     !.index = @ + 1,
                     !.evs = Notify(@, "end"),
                     !.state = "END"]
    ELSE [L EXCEPT !.i = @ + 1]

\* mutant: bytes after the last boundary other than CR LF are an error
EndStep_strict(L, c, data, length) ==
    IF c = CR /\ L.i + 1 < length /\ At(data, L.i + 1) = LF
    THEN [L EXCEPT !.i = @ + 2]
    ELSE Raise(L)

\* state END: a CR LF pair is passed over, anything else ends the write
EndStep(L, c, data, length) ==
    IF c = CR /\ L.i + 1 < length /\ At(data, L.i + 1) = LF
    THEN [L EXCEPT !.i = @ + 2]
    ELSE [L EXCEPT !.i = length]

\* one iteration of the while loop
MultipartStep(L, data, length, boundary, selfflags) ==
    LET c == At(data, L.i)
        bl == Len(boundary)
        next == [L EXCEPT !.i = @ + 1]
    IN
    CASE L.state = "START" -> StartStep(L, c)
      [] L.state = "START_BOUNDARY" -> StartBoundaryStep(L, c, boundary)
      [] L.state = "HEADER_FIELD_START" ->
           LET La == set_mark([L EXCEPT !.index = 0], "header_field")
           IN  [La EXCEPT !.evs = IF c # CR THEN Notify(@, "header_begin") ELSE @,
                          !.state = "HEADER_FIELD"]
      [] L.state = "HEADER_FIELD" ->
           IF c = CR /\ L.index = 0
           THEN [delete_mark(next, "header_field") EXCEPT !.state = "HEADERS_ALMOST_DONE"]
           ELSE IF c = COLON THEN
             IF L.index + 1 = 1 THEN Raise(L)
             ELSE LET La == data_callback([L EXCEPT !.index = @ + 1], "header_field",
                                          L.i, FALSE, data, length, boundary, selfflags)
                  IN  [La EXCEPT !.state = "HEADER_VALUE_START", !.i = @ + 1]
           ELSE IF c \notin TOKEN_CHARS_SET THEN Raise(L)
           ELSE [next EXCEPT !.index = @ + 1]
      [] L.state = "HEADER_VALUE_START" ->
           IF c = SPACE THEN next
           ELSE [set_mark(L, "header_value") EXCEPT !.state = "HEADER_VALUE"]
      [] L.state = "HEADER_VALUE" ->
           IF c = CR THEN
             LET La == data_callback(L, "header_value", L.i, FALSE,
                                     data, length, boundary, selfflags)
             IN  [La EXCEPT !.evs = Notify(@, "header_end"),
                            !.state = "HEADER_VALUE_ALMOST_DONE",
                            !.i = @ + 1]
           ELSE next
      [] L.state = "HEADER_VALUE_ALMOST_DONE" ->
           IF c # LF THEN Raise(L)
           ELSE [next EXCEPT !.state = "HEADER_FIELD_START"]
      [] L.state = "HEADERS_ALMOST_DONE" ->
           IF c # LF THEN Raise(L)
           ELSE [next EXCEPT !.evs = Notify(@, "headers_finished"),
                             !.state = "PART_DATA_START"]
      [] L.state = "PART_DATA_START" ->
           [set_mark(L, "part_data") EXCEPT !.state = "PART_DATA"]
      [] L.state = "PART_DATA" ->
           PartDataStep(L, data, length, boundary, selfflags)
      [] L.state = "END_BOUNDARY" -> EndBoundaryStep(L, c, bl)
      [] L.state = "END" -> EndStep(L, c, data, length)
      [] OTHER -> Raise(L)

\* at most k iterations of the loop
RECURSIVE MultipartIterate(_, _, _, _, _, _)
MultipartIterate(L, k, data, length, boundary, selfflags) ==
    IF L.err # <<>> \/ L.i >= length THEN L
    ELSE IF k = 1 THEN MultipartStep(L, data, length, boundary, selfflags)
    ELSE CHOOSE r \in
           {MultipartIterate(L1, k - (k \div 2), data, length, boundary, selfflags) :
              L1 \in {MultipartIterate(L, k \div 2, data, length, boundary,
                                       selfflags)}} : TRUE

\* while i < length, to the end or the first error
RECURSIVE MultipartLoop(_, _, _, _, _)
MultipartLoop(L, data, length, boundary, selfflags) ==
    IF L.err # <<>> \/ L.i >= length THEN L
    ELSE CHOOSE r \in
           {MultipartLoop(L1, data, length, boundary, selfflags) :
              L1 \in {MultipartIterate(L, 2 * length, data, length, boundary,
                                       selfflags)}} : TRUE

\* _internal_write(data, length) on parser p: the locals at the return (or at
\* the raise), after the three trailing data_callback(..., remaining=True)
MultipartFlush(L1, data, length, boundary, selfflags) ==
    IF L1.err # <<>> THEN L1
    ELSE CHOOSE r \in
           {data_callback(L3, "part_data", length - L1.index, TRUE,
                          data, length, boundary, selfflags) :
              L3 \in {data_callback(L2, "header_value", length, TRUE,
                                    data, length, boundary, selfflags) :
                        L2 \in {data_callback(L1, "header_field", length, TRUE,
                                              data, length, boundary, selfflags)}}} : TRUE

MultipartInternalWrite(p, data, length) ==
    CHOOSE r \in
      {MultipartFlush(L1, data, length, p.boundary, p.flags) :
         L1 \in {MultipartLoop([i |-> 0, state |-> p.state, index |-> p.index,
                                flags |-> p.flags, marks |-> p.marks, evs |-> <<>>,
                                err |-> <<>>, cont |-> FALSE],
                               data, length, p.boundary, p.flags)}} : TRUE

\* write(data): [parser after the call, events, returned value, err]; when
\* _internal_write raises, state, index and flags are not stored, marks (changed
\* in place) are, and _current_size grows by l = 0
MultipartWriteResult(p, L, data_len) ==
    IF L.err # <<>>
    THEN [parser |-> [p EXCEPT !.marks = L.marks],
          evs |-> L.evs, ret |-> 0, err |-> L.err]
    ELSE [parser |-> [p EXCEPT !.state = L.state, !.index = L.index,
                               !.flags = L.flags, !.marks = L.marks,
                               !.current_size = @ + data_len],
          evs |-> L.evs, ret |-> data_len, err |-> <<>>]

MultipartWrite(p, data) ==
    CHOOSE r \in
      {MultipartWriteResult(p, L, n) :
         n \in {AcceptedLen(p.current_size, p.max_size, Len(data))},
         L \in {MultipartInternalWrite(p, data,
                    AcceptedLen(p.current_size, p.max_size, Len(data)))}} : TRUE

----------------------------------------------------------------------------
(* The transfer decoders of multipart/decoders.py, with the two binascii    *)
(* functions they call.                                                     *)

\* binascii's table_a2b_base64: the 6-bit value of a base64 character, 64
\* for a byte outside the alphabet
table_a2b_base64(c) ==
    IF c \in 65..90 THEN c - 65
    ELSE IF c \in 97..122 THEN c - 71
    ELSE IF c \in 48..57 THEN c + 4
    ELSE IF c = 43 THEN 62
    ELSE IF c = 47 THEN 63
    ELSE 64

\* one character of binascii.a2b_base64 (not strict); Q is
\* [quad_pos, leftchar, pads, out, done]
a2b_base64_char(Q, c) ==
    IF Q.done THEN Q
    ELSE IF c = EQUALS THEN
      IF Q.quad_pos >= 2
      THEN [Q EXCEPT !.pads = @ + 1, !.done = Q.quad_pos + Q.pads + 1 >= 4]
      ELSE Q
    ELSE IF table_a2b_base64(c) >= 64 THEN Q
    ELSE LET v == table_a2b_base64(c)
         IN  CASE Q.quad_pos = 0 ->
                    [Q EXCEPT !.pads = 0, !.quad_pos = 1, !.leftchar = v]
               [] Q.quad_pos = 1 ->
                    [Q EXCEPT !.pads = 0, !.quad_pos = 2, !.leftchar = v % 16,
                              !.out = Append(@, Q.leftchar * 4 + v \div 16)]
               [] Q.quad_pos = 2 ->
                    [Q EXCEPT !.pads = 0, !.quad_pos = 3, !.leftchar = v % 4,
                              !.out = Append(@, Q.leftchar * 16 + v \div 4)]
               [] OTHER ->
                    [Q EXCEPT !.pads = 0, !.quad_pos = 0, !.leftchar = 0,
                              !.out = Append(@, Q.leftchar * 64 + v)]

RECURSIVE a2b_base64_loop(_, _, _)
a2b_base64_loop(Q, data, i) ==
    IF i >= Len(data) THEN Q
    ELSE CHOOSE r \in {a2b_base64_loop(Q1, data, i + 1) :
                         Q1 \in {a2b_base64_char(Q, At(data, i))}} : TRUE

\* base64.b64decode(val): [ok, out]; ok is FALSE where binascii.Error is raised
b64decode(val) ==
    CHOOSE r \in
      {[ok |-> Q.done \/ Q.quad_pos = 0, out |-> Q.out] :
         Q \in {a2b_base64_loop([quad_pos |-> 0, leftchar |-> 0, pads |-> 0,
                                 out |-> <<>>, done |-> FALSE], val, 0)}} : TRUE

IsHexDigit(c) == c \in (48..57) \cup (65..70) \cup (97..102)

HexDigitValue(c) ==
    IF c \in 48..57 THEN c - 48 ELSE IF c \in 65..70 THEN c - 55 ELSE c - 87

\* binascii.a2b_qp(data) from offset in on
RECURSIVE a2b_qp_from(_, _)
a2b_qp_from(data, in) ==
    IF in >= Len(data) THEN <<>>
    ELSE IF At(data, in) # EQUALS THEN <<At(data, in)>> \o a2b_qp_from(data, in + 1)
    ELSE IF in + 1 >= Len(data) THEN <<>>
    ELSE IF At(data, in + 1) = LF THEN a2b_qp_from(data, in + 2)
    ELSE IF At(data, in + 1) = CR THEN
      IF Find(data, <<LF>>, in + 1, Len(data)) = -1 THEN <<>>
      ELSE a2b_qp_from(data, Find(data, <<LF>>, in + 1, Len(data)) + 1)
    ELSE IF At(data, in + 1) = EQUALS THEN <<EQUALS>> \o a2b_qp_from(data, in + 2)
    ELSE IF /\ in + 2 < Len(data)
            /\ IsHexDigit(At(data, in + 1))
            /\ IsHexDigit(At(data, in + 2))
      THEN <<HexDigitValue(At(data, in + 1)) * 16 + HexDigitValue(At(data, in + 2))>>
              \o a2b_qp_from(data, in + 3)
    ELSE <<EQUALS>> \o a2b_qp_from(data, in + 1)

a2b_qp(data) == a2b_qp_from(data, 0)

\* a decoder (or, for kind "direct", the File/Field itself as the writer):
\* cache, the index of the underlying object, and whether finalize() has
\* returned on it
Base64Decoder(underlying) ==
    [kind |-> "base64", cache |-> <<>>, underlying |-> underlying, finalized |-> FALSE]

QuotedPrintableDecoder(underlying) ==
    [kind |-> "quoted-printable", cache |-> <<>>, underlying |-> underlying,
     finalized |-> FALSE]

\* Base64Decoder.write(data): [writer, out, err, ret]; out is <<>> or
\* <<bytes>>, the argument of underlying.write when it is called; ret is the
\* value returned, len(data) after the cache was prepended to data
Base64DecoderWrite_forgets_cache(w, data) ==
    LET d == w.cache \o data
        decode_len == (Len(d) \div 4) * 4
    IN  IF decode_len > 0 /\ ~b64decode(Slice(d, 0, decode_len)).ok
        THEN [writer |-> w, out |-> <<>>, err |-> <<"DecodeError">>, ret |-> 0]
        ELSE [writer |-> [w EXCEPT !.cache = <<>>],
              out |-> IF decode_len > 0
                      THEN <<b64decode(Slice(d, 0, decode_len)).out>> ELSE <<>>,
              err |-> <<>>,
              ret |-> Len(d)]

Base64DecoderWrite(w, data) ==
    LET d == w.cache \o data
        decode_len == (Len(d) \div 4) * 4
        remaining_len == Len(d) % 4
    IN  IF decode_len > 0 /\ ~b64decode(Slice(d, 0, decode_len)).ok
        THEN [writer |-> w, out |-> <<>>, err |-> <<"DecodeError">>, ret |-> 0]
        ELSE [writer |-> [w EXCEPT !.cache = Slice(d, Len(d) - remaining_len, Len(d))],
              out |-> IF decode_len > 0
                      THEN <<b64decode(Slice(d, 0, decode_len)).out>> ELSE <<>>,
              err |-> <<>>,
              ret |-> Len(d)]

\* QuotedPrintableDecoder.write(data)
QuotedPrintableDecoderWrite(w, data) ==
    LET d == w.cache \o data
        cut == Max(0, Len(d) - 2)
        hold == Find(Slice(d, cut, Len(d)), <<EQUALS>>, 0, 2) # -1
        enc == IF hold THEN Slice(d, 0, cut) ELSE d
        rest == IF hold THEN Slice(d, cut, Len(d)) ELSE <<>>
    IN  [writer |-> [w EXCEPT !.cache = rest],
         out |-> IF Len(enc) > 0 THEN <<a2b_qp(enc)>> ELSE <<>>,
         err |-> <<>>,
         ret |-> Len(d)]

\* Base64Decoder.finalize(): [writer, out, err, finalize_underlying]
Base64DecoderFinalize_never_raises(w) ==
    [writer |-> [w EXCEPT !.finalized = TRUE], out |-> <<>>, err |-> <<>>,
     finalize_underlying |-> TRUE]

Base64DecoderFinalize(w) ==
    IF Len(w.cache) > 0
    THEN [writer |-> w, out |-> <<>>, err |-> <<"DecodeError">>,
          finalize_underlying |-> FALSE]
    ELSE [writer |-> [w EXCEPT !.finalized = TRUE], out |-> <<>>, err |-> <<>>,
          finalize_underlying |-> TRUE]

\* QuotedPrintableDecoder.finalize()
QuotedPrintableDecoderFinalize(w) ==
    [writer |-> [w EXCEPT !.cache = <<>>, !.finalized = TRUE],
     out |-> IF Len(w.cache) > 0 THEN <<a2b_qp(w.cache)>> ELSE <<>>,
     err |-> <<>>,
     finalize_underlying |-> TRUE]

----------------------------------------------------------------------------
(* parse_options_header, for header values whose parameter names are        *)
(* distinct and carry no '*' (RFC 2231) and whose values hold no backslash  *)
(* escape.                                                                  *)

DQUOTE == 34
BACKSLASH == 92
LESS_THAN == 60
GREATER_THAN == 62

\* an optional value (None or a value) is <<>> or <<value>>
None == <<>>

\* a dict is a sequence of <<key, value>> with distinct keys
DictGet(d, key) ==
    LET hits == {k \in 1..Len(d) : d[k][1] = key}
    IN  IF hits = {} THEN None ELSE <<d[CHOOSE k \in hits : TRUE][2]>>

DictSet(d, key, value) ==
    LET hits == {k \in 1..Len(d) : d[k][1] = key}
    IN  IF hits = {} THEN Append(d, <<key, value>>)
        ELSE [d EXCEPT ![CHOOSE k \in hits : TRUE] = <<key, value>>]

\* str.lower() and str.strip() of a latin-1 string
Lower(str) ==
    [k \in 1..Len(str) |->
        IF str[k] \in (65..90) \cup ((192..222) \ {215}) THEN str[k] + 32 ELSE str[k]]

IsSpace(c) == c \in {9, 10, 11, 12, 13, 28, 29, 30, 31, 32, 133, 160}

Strip(str) ==
    LET keep == {k \in 1..Len(str) : ~IsSpace(str[k])}
    IN  IF keep = {} THEN <<>>
        ELSE SubSeq(str, CHOOSE k \in keep : \A m \in keep : k <= m,
                         CHOOSE k \in keep : \A m \in keep : k >= m)

\* email.message._parseparam: the end of the parameter that starts str, the
\* first ';' outside double quotes
RECURSIVE ParamEnd(_, _)
ParamEnd(str, end) ==
    IF /\ end > 0
       /\ (Cardinality({k \in 1..end : str[k] = DQUOTE})
            - Cardinality({k \in 1..(end - 1) :
                              str[k] = BACKSLASH /\ str[k + 1] = DQUOTE})) % 2 = 1
    THEN ParamEnd(str, Find(str, <<SEMICOLON>>, end + 1, Len(str)))
    ELSE end

ParamCut(str) ==
    LET end == ParamEnd(str, Find(str, <<SEMICOLON>>, 0, Len(str)))
    IN  IF end < 0 THEN Len(str) ELSE end

\* one parameter, its name lowercased when it has a value
ParamPiece(f) ==
    LET i == Find(f, <<EQUALS>>, 0, Len(f))
    IN  Strip(IF i >= 0
              THEN Lower(Strip(Slice(f, 0, i))) \o <<EQUALS>>
                     \o Strip(Slice(f, i + 1, Len(f)))
              ELSE f)

\* email.message._parseparam on a string that starts with ';'
RECURSIVE parseparam(_)
parseparam(str) ==
    IF str = <<>> \/ str[1] # SEMICOLON THEN <<>>
    ELSE CHOOSE r \in
           {<<ParamPiece(Slice(s1, 0, end))>> \o parseparam(Slice(s1, end, Len(s1))) :
              s1 \in {Tail(str)}, end \in {ParamCut(Tail(str))}} : TRUE

\* Message.get_params: name and value of one parameter
ParamName(p) ==
    LET i == Find(p, <<EQUALS>>, 0, Len(p))
    IN  IF i >= 0 THEN Strip(Slice(p, 0, i)) ELSE Strip(p)

ParamValue(p) ==
    LET i == Find(p, <<EQUALS>>, 0, Len(p))
    IN  IF i >= 0 THEN Strip(Slice(p, i + 1, Len(p))) ELSE <<>>

\* email.utils.unquote
Unquote(str) ==
    IF /\ Len(str) > 1
       /\ \/ str[1] = DQUOTE /\ str[Len(str)] = DQUOTE
          \/ str[1] = LESS_THAN /\ str[Len(str)] = GREATER_THAN
    THEN SubSeq(str, 2, Len(str) - 1)
    ELSE str

\* the fix for a full Windows path sent as filename: keep what follows the
\* last backslash
FilenameFix(key, value) ==
    IF /\ key = <<102, 105, 108, 101, 110, 97, 109, 101>>
       /\ \/ Slice(value, 1, 3) = <<COLON, BACKSLASH>>
          \/ Slice(value, 0, 2) = <<BACKSLASH, BACKSLASH>>
    THEN LET bs == {k \in 1..Len(value) : value[k] = BACKSLASH}
         IN  SubSeq(value, (CHOOSE k \in bs : \A m \in bs : k >= m) + 1, Len(value))
    ELSE value

RECURSIVE OptionsFrom(_, _, _)
OptionsFrom(plist, k, options) ==
    IF k > Len(plist) THEN options
    ELSE OptionsFrom(plist, k + 1,
                     DictSet(options, ParamName(plist[k]),
                             FilenameFix(ParamName(plist[k]),
                                         Unquote(ParamValue(plist[k])))))

\* parse_options_header(value), value None or bytes: [ctype, options]
parse_options_header(value) ==
    IF value = None \/ value[1] = <<>> THEN [ctype |-> <<>>, options |-> <<>>]
    ELSE IF \A k \in 1..Len(value[1]) : value[1][k] # SEMICOLON
         THEN [ctype |-> Strip(Lower(value[1])), options |-> <<>>]
    ELSE CHOOSE r \in
           {[ctype |-> ParamName(plist[1]), options |-> OptionsFrom(plist, 2, <<>>)] :
              plist \in {parseparam(<<SEMICOLON>> \o value[1])}} : TRUE

----------------------------------------------------------------------------
(* FormParser for multipart/form-data: the callbacks it gives the           *)
(* MultipartParser. They work on st = [form, objs, calls, n]; n counts the  *)
(* parser events handled. An exception raised in a callback is kept in      *)
(* form.err and ends the write.                                             *)

\* b"Content-Disposition"
CONTENT_DISPOSITION ==
    <<67, 111, 110, 116, 101, 110, 116, 45, 68, 105, 115, 112, 111, 115, 105, 116,
      105, 111, 110>>
\* b"Content-Transfer-Encoding"
CONTENT_TRANSFER_ENCODING ==
    <<67, 111, 110, 116, 101, 110, 116, 45, 84, 114, 97, 110, 115, 102, 101, 114,
      45, 69, 110, 99, 111, 100, 105, 110, 103>>
\* b"name", b"filename"
OPT_NAME == <<110, 97, 109, 101>>
OPT_FILENAME == <<102, 105, 108, 101, 110, 97, 109, 101>>
\* b"binary", b"8bit", b"7bit", b"base64", b"quoted-printable"
CTE_BINARY == <<98, 105, 110, 97, 114, 121>>
CTE_8BIT == <<56, 98, 105, 116>>
CTE_7BIT == <<55, 98, 105, 116>>
CTE_BASE64 == <<98, 97, 115, 101, 54, 52>>
CTE_QUOTED_PRINTABLE ==
    <<113, 117, 111, 116, 101, 100, 45, 112, 114, 105, 110, 116, 97, 98, 108, 101>>

\* a Field or File: the names it was created with (None or <<bytes>>), the
\* bytes written to it, and the calls made on it: "write", "finalize", and
\* "handed" when it is passed to on_field or on_file
Field(name) ==
    [is_file |-> FALSE, field_name |-> name, file_name |-> None,
     value |-> <<>>, cache |-> "missing", ops |-> <<>>]

\* Field.write (on_data), Field.finalize (on_end), Field.set_none and the
\* value property (None or <<bytes>>); cache is _cache: "missing", "None",
\* or "joined" for the joined bytes
FieldWrite(f, data) ==
    [f EXCEPT !.value = @ \o data, !.cache = "missing", !.ops = Append(@, "write")]

FieldFinalize(f) ==
    [f EXCEPT !.cache = IF @ = "missing" THEN "joined" ELSE @,
              !.ops = Append(@, "finalize")]

FieldSetNone(f) == [f EXCEPT !.cache = "None", !.ops = Append(@, "set_none")]

FieldValue(f) == IF f.cache = "None" THEN None ELSE <<f.value>>

File(file_name, field_name) ==
    [is_file |-> TRUE, field_name |-> field_name, file_name |-> file_name,
     value |-> <<>>, ops |-> <<>>]

\* writer = None, and writer = f_multi
NoWriter == [kind |-> "none", cache |-> <<>>, underlying |-> 0, finalized |-> FALSE]

DirectWriter(k) ==
    [kind |-> "direct", cache |-> <<>>, underlying |-> k, finalized |-> FALSE]

\* package is the package the FormParser class comes from: "python_multipart",
\* or "multipart" for the look-behind implementation; on_end is whether the
\* caller gave an on_end callback
FormParserInit ==
    [package |-> "python_multipart", on_end |-> TRUE,
     bytes_received |-> 0, UPLOAD_ERROR_ON_BAD_CTE |-> FALSE,
     header_name |-> <<>>, header_value |-> <<>>, headers |-> <<>>,
     f_multi |-> 0, writer |-> NoWriter, is_file |-> FALSE, err |-> <<>>]

\* Field.write / File.write of out[1] on object k, when out is not <<>>
ObjWrite(st, k, out) ==
    IF out = <<>> THEN st
    ELSE IF st.objs[k].is_file
         THEN [st EXCEPT !.objs[k].value = @ \o out[1],
                         !.objs[k].ops = Append(@, "write")]
    ELSE [st EXCEPT !.objs[k] = FieldWrite(@, out[1])]

\* Field.finalize / File.finalize on object k
ObjFinalize(st, k) ==
    IF st.objs[k].is_file THEN [st EXCEPT !.objs[k].ops = Append(@, "finalize")]
    ELSE [st EXCEPT !.objs[k] = FieldFinalize(@)]

\* writer.write(data)
WriterWrite(st, data) ==
    IF st.form.writer.kind = "none" THEN [st EXCEPT !.form.err = <<"AssertionError">>]
    ELSE IF st.form.writer.kind = "direct"
         THEN ObjWrite(st, st.form.writer.underlying, <<data>>)
    ELSE CHOOSE res \in
           {[ObjWrite(st, r.writer.underlying, r.out)
                EXCEPT !.form.writer = r.writer, !.form.err = r.err] :
              r \in {IF st.form.writer.kind = "base64"
                     THEN Base64DecoderWrite(st.form.writer, data)
                     ELSE QuotedPrintableDecoderWrite(st.form.writer, data)}} : TRUE

\* writer.finalize(), writer not None
WriterFinalize(st) ==
    IF st.form.writer.kind = "direct" THEN ObjFinalize(st, st.form.writer.underlying)
    ELSE CHOOSE res \in
           {[(IF r.finalize_underlying
              THEN ObjFinalize(ObjWrite(st, r.writer.underlying, r.out),
                               r.writer.underlying)
              ELSE st)
                EXCEPT !.form.writer = r.writer, !.form.err = r.err] :
              r \in {IF st.form.writer.kind = "base64"
                     THEN Base64DecoderFinalize(st.form.writer)
                     ELSE QuotedPrintableDecoderFinalize(st.form.writer)}} : TRUE

on_part_begin(st) == [st EXCEPT !.form.headers = <<>>]

\* on_part_begin of the look-behind implementation: pass
lookbehind_on_part_begin(st) == st

on_part_data(st, data) == WriterWrite(st, data)

\* the user's on_field / on_file: what it is given, and what the part's
\* writer held and whether it had been finalized when it ran
UserCall(st, k, finalized) ==
    [cb |-> IF st.form.is_file THEN "on_file" ELSE "on_field",
     obj |-> k,
     field_name |-> st.objs[k].field_name,
     file_name |-> st.objs[k].file_name,
     content |-> st.objs[k].value,
     residue |-> st.form.writer.cache,
     writer_finalized |-> finalized]

on_part_end(st) ==
    IF st.form.f_multi = 0 THEN [st EXCEPT !.form.err = <<"AssertionError">>]
    ELSE CHOOSE res \in
           {[st1 EXCEPT !.calls = Append(@, UserCall(st1, k,
                                     st.form.writer.kind = "direct"
                                       \/ st.form.writer.finalized)),
                        !.objs[k].ops = Append(@, "handed")] :
              st1 \in {ObjFinalize(st, st.form.f_multi)},
              k \in {st.form.f_multi}} : TRUE

on_header_field(st, data) == [st EXCEPT !.form.header_name = @ \o data]

on_header_value(st, data) == [st EXCEPT !.form.header_value = @ \o data]

on_header_end(st) ==
    [st EXCEPT !.form.headers = DictSet(@, st.form.header_name, st.form.header_value),
               !.form.header_name = <<>>,
               !.form.header_value = <<>>]

\* mutant: an unknown Content-Transfer-Encoding is never an error
ChooseWriter_never_raises(transfer_encoding, k, error_on_bad_cte) ==
    IF transfer_encoding \in {CTE_BINARY, CTE_8BIT, CTE_7BIT}
    THEN [writer |-> DirectWriter(k), err |-> <<>>]
    ELSE IF transfer_encoding = CTE_BASE64
         THEN [writer |-> Base64Decoder(k), err |-> <<>>]
    ELSE IF transfer_encoding = CTE_QUOTED_PRINTABLE
         THEN [writer |-> QuotedPrintableDecoder(k), err |-> <<>>]
    ELSE [writer |-> DirectWriter(k), err |-> <<>>]

\* the writer chosen for Content-Transfer-Encoding, [writer, err]
ChooseWriter(transfer_encoding, k, error_on_bad_cte) ==
    IF transfer_encoding \in {CTE_BINARY, CTE_8BIT, CTE_7BIT}
    THEN [writer |-> DirectWriter(k), err |-> <<>>]
    ELSE IF transfer_encoding = CTE_BASE64
         THEN [writer |-> Base64Decoder(k), err |-> <<>>]
    ELSE IF transfer_encoding = CTE_QUOTED_PRINTABLE
         THEN [writer |-> QuotedPrintableDecoder(k), err |-> <<>>]
    ELSE IF error_on_bad_cte THEN [writer |-> NoWriter, err |-> <<"FormParserError">>]
    ELSE [writer |-> DirectWriter(k), err |-> <<>>]

on_headers_finished(st) ==
    CHOOSE res \in
      {[st EXCEPT
          !.objs = Append(@, IF DictGet(po.options, OPT_FILENAME) = None
                             THEN Field(DictGet(po.options, OPT_NAME))
                             ELSE File(DictGet(po.options, OPT_FILENAME),
                                       DictGet(po.options, OPT_NAME))),
          !.form.is_file = DictGet(po.options, OPT_FILENAME) # None,
          !.form.f_multi = Len(st.objs) + 1,
          !.form.writer = IF cw.err = <<>> THEN cw.writer ELSE @,
          !.form.err = cw.err] :
         po \in {parse_options_header(DictGet(st.form.headers, CONTENT_DISPOSITION))},
         cw \in {ChooseWriter(
                   IF DictGet(st.form.headers, CONTENT_TRANSFER_ENCODING) = None
                   THEN CTE_7BIT
                   ELSE DictGet(st.form.headers, CONTENT_TRANSFER_ENCODING)[1],
                   Len(st.objs) + 1, st.form.UPLOAD_ERROR_ON_BAD_CTE)}} : TRUE

\* _on_end: the last writer is finalized, then the user's on_end runs
on_end(st) ==
    CHOOSE res \in
      {IF st1.form.err # <<>> THEN st1
       ELSE [st1 EXCEPT !.calls = Append(@, [cb |-> "on_end", obj |-> 0,
                                             field_name |-> None, file_name |-> None,
                                             content |-> <<>>, residue |-> <<>>,
                                             writer_finalized |-> FALSE])] :
         st1 \in {IF st.form.writer.kind # "none" THEN WriterFinalize(st) ELSE st}} : TRUE

\* BaseParser.callback with the callbacks FormParser registers (it registers
\* none for header_begin)
Dispatch(st, ev) ==
    CASE ev.name = "part_begin" -> IF st.form.package = "multipart"
                                   THEN lookbehind_on_part_begin(st)
                                   ELSE on_part_begin(st)
      [] ev.name = "part_data" -> on_part_data(st, ev.data)
      [] ev.name = "part_end" -> on_part_end(st)
      [] ev.name = "header_field" -> on_header_field(st, ev.data)
      [] ev.name = "header_value" -> on_header_value(st, ev.data)
      [] ev.name = "header_end" -> on_header_end(st)
      [] ev.name = "headers_finished" -> on_headers_finished(st)
      [] ev.name = "end" -> on_end(st)
      [] OTHER -> st

RECURSIVE FormDispatch(_, _)
FormDispatch(st, evs) ==
    IF evs = <<>> \/ st.form.err # <<>> THEN st
    ELSE CHOOSE res \in
           {FormDispatch(st1, t) :
              st1 \in {[Dispatch(st, Head(evs)) EXCEPT !.n = @ + 1]},
              t \in {Tail(evs)}} : TRUE

\* FormParser.write(data) with MultipartParser p: [st, parser, evs, ret, err];
\* when a callback raised, the parser stored no state, index or flags, and
\* the events are those up to the one whose callback raised
FormParserWriteResult(p, r, st) ==
    IF st.form.err # <<>>
    THEN [st |-> st, parser |-> [p EXCEPT !.marks = r.parser.marks],
          evs |-> SubSeq(r.evs, 1, st.n), ret |-> 0, err |-> <<>>]
    ELSE [st |-> st, parser |-> r.parser, evs |-> r.evs, ret |-> r.ret, err |-> r.err]

FormParserWrite(st, p, data) ==
    CHOOSE res \in
      {FormParserWriteResult(p, r, FormDispatch(
           [st EXCEPT !.form.bytes_received = @ + Len(data), !.n = 0], r.evs)) :
         r \in {MultipartWrite(p, data)}} : TRUE

----------------------------------------------------------------------------
(* FormParser for application/octet-stream, and parse_form's loop.          *)

\* on_start: the File is created (file_name is the X-File-Name header)
octet_on_start(st, file_name) == [st EXCEPT !.objs = Append(@, File(file_name, None))]

\* on_data: file.write(data[start:end])
octet_on_data(st, data) == ObjWrite(st, Len(st.objs), <<data>>)

\* the user's on_end
EndCall ==
    [cb |-> "on_end", obj |-> 0, field_name |-> None, file_name |-> None,
     content |-> <<>>, residue |-> <<>>, writer_finalized |-> FALSE]

\* _on_end: file.finalize(), then on_file(file), then on_end() if there is
\* one; file is None until on_start ran, and None has no finalize
octet_on_end(st) ==
    IF st.objs = <<>> THEN [st EXCEPT !.form.err = <<"AttributeError">>]
    ELSE CHOOSE res \in
      {[st1 EXCEPT !.calls = Append(@, [cb |-> "on_file", obj |-> Len(st1.objs),
                                        field_name |-> st1.objs[Len(st1.objs)].field_name,
                                        file_name |-> st1.objs[Len(st1.objs)].file_name,
                                        content |-> st1.objs[Len(st1.objs)].value,
                                        residue |-> <<>>,
                                        writer_finalized |-> TRUE])
                         \o (IF st.form.on_end THEN <<EndCall>> ELSE <<>>)] :
         st1 \in {ObjFinalize(st, Len(st.objs))}} : TRUE

OctetDispatch(st, ev) ==
    CASE ev.name = "start" -> octet_on_start(st, None)
      [] ev.name = "data" -> octet_on_data(st, ev.data)
      [] ev.name = "end" -> octet_on_end(st)
      [] OTHER -> st

RECURSIVE OctetFormDispatch(_, _)
OctetFormDispatch(st, evs) ==
    IF evs = <<>> THEN st
    ELSE CHOOSE res \in
           {OctetFormDispatch(st1, t) :
              st1 \in {OctetDispatch(st, Head(evs))}, t \in {Tail(evs)}} : TRUE

\* FormParser.write(data) with OctetStreamParser p: [st, parser, ret]
OctetFormWrite(st, p, data) ==
    CHOOSE res \in
      {[st |-> OctetFormDispatch([st EXCEPT !.form.bytes_received = @ + Len(data)], r.evs),
        parser |-> r.parser, ret |-> r.ret] :
         r \in {OctetStreamWrite(p, data)}} : TRUE

\* FormParser.finalize() with OctetStreamParser p
OctetFormFinalize(st, p) ==
    CHOOSE res \in
      {[st |-> OctetFormDispatch(st, r.evs), parser |-> r.parser] :
         r \in {OctetStreamFinalize(p)}} : TRUE

\* content_length = int(headers["Content-Length"]) or float("inf"), and
\* max_readable = int(min(content_length - bytes_read, chunk_size))
MaxReadable(content_length, bytes_read, chunk_size) ==
    IF content_length = None THEN chunk_size
    ELSE Min(content_length[1] - bytes_read, chunk_size)

\* if len(buff) != max_readable or bytes_read == content_length: break, with
\* bytes_read already advanced
LoopBreaks(buff, max_readable, bytes_read, content_length) ==
    \/ Len(buff) # max_readable
    \/ content_length # None /\ bytes_read = content_length[1]

----------------------------------------------------------------------------
(* FormParser for application/x-www-form-urlencoded: the callbacks it gives *)
(* the QuerystringParser, on st = [form, objs, calls, n].                   *)

\* name_buffer (its slices joined) and f (0 for None, else the Field's index)
UrlencodedFormInit ==
    [bytes_received |-> 0, name_buffer |-> <<>>, f |-> 0, err |-> <<>>]

on_field_start(st) == st

on_field_name(st, data) == [st EXCEPT !.form.name_buffer = @ \o data]

\* f = FieldClass(b"".join(name_buffer)); del name_buffer[:]
NewField(st) ==
    [st EXCEPT !.objs = Append(@, Field(<<st.form.name_buffer>>)),
               !.form.f = Len(st.objs) + 1,
               !.form.name_buffer = <<>>]

on_field_data(st, data) ==
    CHOOSE res \in
      {[st1 EXCEPT !.objs[st1.form.f] = FieldWrite(@, data)] :
         st1 \in {IF st.form.f = 0 THEN NewField(st) ELSE st}} : TRUE

\* the user's on_field: the Field it is given, its name and its value
FieldCall(st, k) ==
    [cb |-> "on_field", obj |-> k, field_name |-> st.objs[k].field_name,
     value |-> FieldValue(st.objs[k])]

on_field_end(st) ==
    CHOOSE res \in
      {[st2 EXCEPT !.calls = Append(@, FieldCall(st2, st2.form.f)),
                   !.objs[st2.form.f].ops = Append(@, "handed"),
                   !.form.f = 0] :
         st2 \in {[st1 EXCEPT !.objs[st1.form.f] = FieldFinalize(@)] :
                    st1 \in {IF st.form.f = 0
                             THEN [NewField(st) EXCEPT
                                     !.objs[Len(st.objs) + 1] = FieldSetNone(@)]
                             ELSE st}}} : TRUE

\* _on_end of this branch: the user's on_end
urlencoded_on_end(st) ==
    [st EXCEPT !.calls = Append(@, [cb |-> "on_end", obj |-> 0,
                                    field_name |-> None, value |-> None])]

UrlencodedDispatch(st, ev) ==
    CASE ev.name = "field_start" -> on_field_start(st)
      [] ev.name = "field_name" -> on_field_name(st, ev.data)
      [] ev.name = "field_data" -> on_field_data(st, ev.data)
      [] ev.name = "field_end" -> on_field_end(st)
      [] ev.name = "end" -> urlencoded_on_end(st)
      [] OTHER -> st

RECURSIVE UrlencodedFormDispatch(_, _)
UrlencodedFormDispatch(st, evs) ==
    IF evs = <<>> THEN st
    ELSE CHOOSE res \in
           {UrlencodedFormDispatch(st1, t) :
              st1 \in {[UrlencodedDispatch(st, Head(evs)) EXCEPT !.n = @ + 1]},
              t \in {Tail(evs)}} : TRUE

\* FormParser.write(data) with QuerystringParser p: [st, parser, evs, ret, err]
UrlencodedFormWrite(st, p, data) ==
    CHOOSE res \in
      {[st |-> UrlencodedFormDispatch(
                  [st EXCEPT !.form.bytes_received = @ + Len(data), !.n = 0], r.evs),
        parser |-> r.parser, evs |-> r.evs, ret |-> r.ret, err |-> r.err] :
         r \in {QuerystringWrite(p, data)}} : TRUE

\* FormParser.finalize() with QuerystringParser p: [st, parser, evs]
UrlencodedFormFinalize(st, p) ==
    CHOOSE res \in
      {[st |-> UrlencodedFormDispatch([st EXCEPT !.n = 0], r.evs),
        parser |-> r.parser, evs |-> r.evs] :
         r \in {QuerystringFinalize(p)}} : TRUE

----------------------------------------------------------------------------
(* The caller of a MultipartParser: offers body in consecutive chunks.      *)

MaxTail == 2

RECURSIVE SeqsUpTo(_, _)
SeqsUpTo(S, n) ==
    IF n = 0 THEN {<<>>}
    ELSE LET shorter == SeqsUpTo(S, n - 1)
         IN  shorter \cup {Append(s, x) : s \in {t \in shorter : Len(t) = n - 1}, x \in S}

Token == <<LOWER_B>>
OpenBoundary == <<HYPHEN, HYPHEN>> \o Token \o <<CR, LF>>
Delimiter == <<CR, LF, HYPHEN, HYPHEN>> \o Token
CloseDelimiter == Delimiter \o <<HYPHEN, HYPHEN>>

MPBytes == {CR, LF, HYPHEN, COLON, SPACE, LOWER_B}

\* bodies: a prefix that brings the parser somewhere, every short tail over
\* MPBytes, and a suffix that may finish the headers and the part
NoHeaders == OpenBoundary \o <<CR, LF>>
OneHeader == OpenBoundary \o <<LOWER_B, COLON, LOWER_B, CR, LF, CR, LF>>

MPPrefixes ==
    { <<>>,
      OpenBoundary,
      OpenBoundary \o <<LOWER_B, COLON>>,
      NoHeaders,
      OneHeader,
      NoHeaders \o <<CR, LF, HYPHEN>>,
      NoHeaders \o Delimiter }

MPSuffixes ==
    { <<>>,
      CloseDelimiter,
      <<CR, LF, CR, LF, SPACE>> \o CloseDelimiter }

MPBodies ==
    {pre \o tail \o suf : pre \in MPPrefixes, tail \in SeqsUpTo(MPBytes, MaxTail),
                          suf \in MPSuffixes}

\* no call yet
NoCall == [op |-> "none", buf |-> <<>>, before |-> <<>>, evs |-> <<>>, ret |-> 0]

\* the parsers a specification does not exercise stay as constructed
NoForm ==
    /\ parts = <<>>
    /\ form = FormParserInit
    /\ objs = <<>>
    /\ calls = <<>>

Idle ==
    /\ offered = 0
    /\ log = <<>>
    /\ retsum = 0
    /\ raised = <<>>
    /\ last = NoCall

MPInit ==
    /\ body \in MPBodies
    /\ Idle
    /\ mp = MultipartParserInit(Token, Inf)
    /\ oct = OctetStreamParserInit(Inf)
    /\ qs = QuerystringParserInit(FALSE, Inf)
    /\ NoForm

MPWrite(n) ==
    /\ raised = <<>>
    /\ offered + n <= Len(body)
    /\ \E r \in {MultipartWrite(mp, SubSeq(body, offered + 1, offered + n))} :
           /\ mp' = r.parser
           /\ log' = MergeInto(log, r.evs)
           /\ retsum' = retsum + r.ret
           /\ raised' = r.err
    /\ offered' = offered + n
    /\ UNCHANGED <<body, last, oct, qs, formvars>>

MPNext == \E n \in 1..Len(body) : MPWrite(n)

Spec == MPInit /\ [][MPNext]_vars

\* the same caller with a size cap on the parser
MaxCap == 14

MPCapBodies ==
    {pre \o tail \o suf : pre \in MPPrefixes, tail \in SeqsUpTo({CR, LOWER_B}, 1),
                          suf \in MPSuffixes}

MPCapInit ==
    /\ body \in MPCapBodies
    /\ Idle
    /\ \E cap \in 1..MaxCap : mp = MultipartParserInit(Token, cap)
    /\ oct = OctetStreamParserInit(Inf)
    /\ qs = QuerystringParserInit(FALSE, Inf)
    /\ NoForm

SpecCap == MPCapInit /\ [][MPNext]_vars

----------------------------------------------------------------------------
(* The caller of an OctetStreamParser: any writes, empty ones included,     *)
(* then finalize.                                                           *)

MaxOctLen == 4
MaxOctCap == 3

OctInit ==
    /\ body \in SeqsUpTo({LOWER_A, LOWER_B}, MaxOctLen)
    /\ Idle
    /\ \E cap \in {Inf} \cup 1..MaxOctCap : oct = OctetStreamParserInit(cap)
    /\ mp = MultipartParserInit(Token, Inf)
    /\ qs = QuerystringParserInit(FALSE, Inf)
    /\ NoForm

OctWrite(n) ==
    /\ last.op # "finalize"
    /\ offered + n <= Len(body)
    /\ \E r \in {OctetStreamWrite(oct, SubSeq(body, offered + 1, offered + n))} :
           /\ oct' = r.parser
           /\ log' = MergeInto(log, r.evs)
           /\ retsum' = retsum + r.ret
           /\ last' = [op |-> "write", buf |-> SubSeq(body, offered + 1, offered + n),
                       before |-> oct, evs |-> r.evs, ret |-> r.ret]
    /\ offered' = offered + n
    /\ UNCHANGED <<body, raised, mp, qs, formvars>>

OctFinalize ==
    /\ last.op # "finalize"
    /\ \E r \in {OctetStreamFinalize(oct)} :
           /\ oct' = r.parser
           /\ log' = MergeInto(log, r.evs)
           /\ last' = [op |-> "finalize", buf |-> <<>>, before |-> oct,
                       evs |-> r.evs, ret |-> 0]
    /\ UNCHANGED <<body, offered, retsum, raised, mp, qs, formvars>>

OctNext ==
    \/ \E n \in 0..Len(body) : OctWrite(n)
    \/ OctFinalize

SpecOct == OctInit /\ [][OctNext]_vars

----------------------------------------------------------------------------
(* The caller of a QuerystringParser.                                       *)

MaxQSLen == 4
MaxQSCap == 3

QSBytes == {LOWER_A, EQUALS, AMPERSAND, SEMICOLON}

QSInit ==
    /\ body \in SeqsUpTo(QSBytes, MaxQSLen)
    /\ Idle
    /\ \E strict \in BOOLEAN, cap \in {Inf} \cup 1..MaxQSCap :
           qs = QuerystringParserInit(strict, cap)
    /\ mp = MultipartParserInit(Token, Inf)
    /\ oct = OctetStreamParserInit(Inf)
    /\ NoForm

QSWrite(n) ==
    /\ raised = <<>>
    /\ last.op # "finalize"
    /\ offered + n <= Len(body)
    /\ \E r \in {QuerystringWrite(qs, SubSeq(body, offered + 1, offered + n))} :
           /\ qs' = r.parser
           /\ log' = MergeInto(log, r.evs)
           /\ retsum' = retsum + r.ret
           /\ raised' = r.err
           /\ last' = [op |-> "write", buf |-> SubSeq(body, offered + 1, offered + n),
                       before |-> qs, evs |-> r.evs, ret |-> r.ret]
    /\ offered' = offered + n
    /\ UNCHANGED <<body, mp, oct, formvars>>

QSFinalize ==
    /\ raised = <<>>
    /\ last.op # "finalize"
    /\ \E r \in {QuerystringFinalize(qs)} :
           /\ qs' = r.parser
           /\ log' = MergeInto(log, r.evs)
           /\ last' = [op |-> "finalize", buf |-> <<>>, before |-> qs,
                       evs |-> r.evs, ret |-> 0]
    /\ UNCHANGED <<body, offered, retsum, raised, mp, oct, formvars>>

QSNext ==
    \/ \E n \in 1..Len(body) : QSWrite(n)
    \/ QSFinalize

SpecQS == QSInit /\ [][QSNext]_vars

----------------------------------------------------------------------------
(* The caller of a FormParser for multipart/form-data: a body of one or two *)
(* parts, written in chunks that end inside a part's data or its closing    *)
(* delimiter, then finalize.                                                *)

MaxPayload == 4

\* a part: File or Field, its Content-Transfer-Encoding (None or <<bytes>>)
\* and its body; base64 bodies (of Files) are over 'Y' '=', quoted-printable
\* ones (of Fields) over '=' '4'
PartsOf(files, cte, payloads) ==
    {[disp |-> TRUE, is_file |-> f, cte |-> cte, payload |-> pl] :
       f \in files, pl \in payloads}

FirstParts ==
    PartsOf(BOOLEAN, None, {<<>>, <<LOWER_X>>})
      \cup PartsOf({TRUE}, <<CTE_BASE64>>, SeqsUpTo({89, EQUALS}, MaxPayload))
      \cup PartsOf({FALSE}, <<CTE_QUOTED_PRINTABLE>>, SeqsUpTo({EQUALS, 52}, MaxPayload))

SecondParts ==
    PartsOf({FALSE}, None, {<<LOWER_X>>})
      \cup PartsOf({TRUE}, <<CTE_BASE64>>, {<<89, 89, EQUALS, EQUALS>>})

FormBodies == {<<p>> : p \in FirstParts} \cup {<<p, q>> : p \in FirstParts, q \in SecondParts}

\* the field name of part k ('a', 'b') and the file name ('f')
PartName(k) == <<LOWER_A + k - 1>>
PartFileName == <<LOWER_A + 5>>

\* the header block of part k, the blank line included; a part with disp
\* FALSE has no Content-Disposition line
RenderHeaders(part, k) ==
    (IF part.disp
     THEN CONTENT_DISPOSITION \o <<COLON, SPACE>>
            \o <<102, 111, 114, 109, 45, 100, 97, 116, 97>>
            \o <<SEMICOLON, SPACE>> \o OPT_NAME \o <<EQUALS, DQUOTE>> \o PartName(k)
            \o <<DQUOTE>>
            \o (IF part.is_file
                THEN <<SEMICOLON, SPACE>> \o OPT_FILENAME \o <<EQUALS, DQUOTE>>
                       \o PartFileName \o <<DQUOTE>>
                ELSE <<>>)
            \o <<CR, LF>>
     ELSE <<>>)
      \o (IF part.cte # None
          THEN CONTENT_TRANSFER_ENCODING \o <<COLON, SPACE>> \o part.cte[1] \o <<CR, LF>>
          ELSE <<>>)
      \o <<CR, LF>>

\* the body up to the data of part k
RECURSIVE RenderUpTo(_, _)
RenderUpTo(ps, k) ==
    IF k = 1 THEN OpenBoundary \o RenderHeaders(ps[1], 1)
    ELSE RenderUpTo(ps, k - 1) \o ps[k - 1].payload \o Delimiter \o <<CR, LF>>
           \o RenderHeaders(ps[k], k)

RenderBody(ps) == RenderUpTo(ps, Len(ps)) \o ps[Len(ps)].payload \o CloseDelimiter

\* the offsets at which a write may end
CutPoints(ps) ==
    UNION {LET start == Len(RenderUpTo(ps, k))
           IN  start..(start + Len(ps[k].payload) + Len(Delimiter) + 2) :
             k \in 1..Len(ps)}

FormInit ==
    /\ parts \in FormBodies
    /\ body = RenderBody(parts)
    /\ Idle
    /\ form = FormParserInit
    /\ objs = <<>>
    /\ calls = <<>>
    /\ mp = MultipartParserInit(Token, Inf)
    /\ oct = OctetStreamParserInit(Inf)
    /\ qs = QuerystringParserInit(FALSE, Inf)

FormWrite(n) ==
    /\ raised = <<>>
    /\ form.err = <<>>
    /\ last.op # "finalize"
    /\ \E r \in {FormParserWrite([form |-> form, objs |-> objs, calls |-> calls, n |-> 0],
                                 mp, SubSeq(body, offered + 1, offered + n))} :
           /\ mp' = r.parser
           /\ form' = r.st.form
           /\ objs' = r.st.objs
           /\ calls' = r.st.calls
           /\ log' = MergeInto(log, r.evs)
           /\ retsum' = retsum + r.ret
           /\ raised' = r.err
    /\ offered' = offered + n
    /\ UNCHANGED <<body, last, oct, qs, parts>>

\* FormParser.finalize: MultipartParser.finalize does nothing
FormFinalize ==
    /\ raised = <<>>
    /\ form.err = <<>>
    /\ last.op # "finalize"
    /\ last' = [NoCall EXCEPT !.op = "finalize"]
    /\ UNCHANGED <<body, offered, log, retsum, raised, mp, oct, qs, formvars>>

FormNext ==
    \/ \E c \in CutPoints(parts) : c > offered /\ FormWrite(c - offered)
    \/ FormFinalize

SpecForm == FormInit /\ [][FormNext]_vars

----------------------------------------------------------------------------
(* The caller of a FormParser for application/x-www-form-urlencoded: a body *)
(* of items name, name= or name=value, each followed by '&' or ';' (the     *)
(* last one possibly by nothing), written in any chunks, then finalize.     *)

MaxItems == 3

\* an item: its name, its value (None for a bare name) and the separator
\* that follows it (<<>> for none)
ItemsWith(seps) ==
    {[name |-> nm, value |-> v, sep |-> sp] :
        nm \in {<<LOWER_A>>, <<LOWER_A, LOWER_B>>},
        v \in {None, <<<<>>>>, <<<<LOWER_X, EQUALS>>>>},
        sp \in seps}

RECURSIVE ItemLists(_)
ItemLists(n) ==
    IF n = 1 THEN {<<it>> : it \in ItemsWith({<<>>, <<AMPERSAND>>, <<SEMICOLON>>})}
    ELSE ItemLists(n - 1)
           \cup {<<it>> \o l : it \in ItemsWith({<<AMPERSAND>>, <<SEMICOLON>>}),
                              l \in ItemLists(n - 1)}

RenderItem(it) ==
    it.name \o (IF it.value = None THEN <<>> ELSE <<EQUALS>> \o it.value[1]) \o it.sep

RECURSIVE RenderItems(_)
RenderItems(its) ==
    IF its = <<>> THEN <<>> ELSE RenderItem(Head(its)) \o RenderItems(Tail(its))

UrlencodedInit ==
    /\ parts \in ItemLists(MaxItems)
    /\ body = RenderItems(parts)
    /\ Idle
    /\ form = UrlencodedFormInit
    /\ objs = <<>>
    /\ calls = <<>>
    /\ mp = MultipartParserInit(Token, Inf)
    /\ oct = OctetStreamParserInit(Inf)
    /\ qs = QuerystringParserInit(FALSE, Inf)

UrlencodedWrite(n) ==
    /\ raised = <<>>
    /\ last.op # "finalize"
    /\ offered + n <= Len(body)
    /\ \E r \in {UrlencodedFormWrite([form |-> form, objs |-> objs, calls |-> calls,
                                      n |-> 0],
                                     qs, SubSeq(body, offered + 1, offered + n))} :
           /\ qs' = r.parser
           /\ form' = r.st.form
           /\ objs' = r.st.objs
           /\ calls' = r.st.calls
           /\ log' = MergeInto(log, r.evs)
           /\ retsum' = retsum + r.ret
           /\ raised' = r.err
    /\ offered' = offered + n
    /\ UNCHANGED <<body, last, mp, oct, parts>>

UrlencodedFinalize ==
    /\ raised = <<>>
    /\ last.op # "finalize"
    /\ \E r \in {UrlencodedFormFinalize([form |-> form, objs |-> objs, calls |-> calls,
                                         n |-> 0], qs)} :
           /\ qs' = r.parser
           /\ form' = r.st.form
           /\ objs' = r.st.objs
           /\ calls' = r.st.calls
           /\ log' = MergeInto(log, r.evs)
    /\ last' = [NoCall EXCEPT !.op = "finalize"]
    /\ UNCHANGED <<body, offered, retsum, raised, mp, oct, parts>>

UrlencodedNext ==
    \/ \E n \in 1..Len(body) : UrlencodedWrite(n)
    \/ UrlencodedFinalize

SpecUrlencoded == UrlencodedInit /\ [][UrlencodedNext]_vars

----------------------------------------------------------------------------
(* The caller of a multipart FormParser at the edges of a body: bytes       *)
(* before the first boundary, a body of no part or of one part, and bytes   *)
(* after the closing delimiter, written in any chunks.                      *)

MaxEdge == 3

\* '--b--', and one part without headers: '--b' CR LF CR LF 'x' CR LF '--b--'
NoParts == <<HYPHEN, HYPHEN>> \o Token \o <<HYPHEN, HYPHEN>>
OnePart == NoHeaders \o <<LOWER_X>> \o CloseDelimiter

EdgeBodies ==
    {<<[lead |-> ld, core |-> co, trail |-> <<>>]>> :
        ld \in SeqsUpTo({CR, LF, SPACE}, MaxEdge), co \in {NoParts, OnePart}}
      \cup {<<[lead |-> <<>>, core |-> co, trail |-> tr]>> :
              tr \in SeqsUpTo({CR, LF, LOWER_X}, MaxEdge), co \in {NoParts, OnePart}}

EdgeInit ==
    /\ parts \in EdgeBodies
    /\ body = parts[1].lead \o parts[1].core \o parts[1].trail
    /\ Idle
    /\ form = FormParserInit
    /\ objs = <<>>
    /\ calls = <<>>
    /\ mp = MultipartParserInit(Token, Inf)
    /\ oct = OctetStreamParserInit(Inf)
    /\ qs = QuerystringParserInit(FALSE, Inf)

\* FormParser.write of the next n bytes, the call kept in last
EdgeWrite(n) ==
    /\ raised = <<>>
    /\ form.err = <<>>
    /\ last.op # "finalize"
    /\ offered + n <= Len(body)
    /\ \E r \in {FormParserWrite([form |-> form, objs |-> objs, calls |-> calls, n |-> 0],
                                 mp, SubSeq(body, offered + 1, offered + n))} :
           /\ mp' = r.parser
           /\ form' = r.st.form
           /\ objs' = r.st.objs
           /\ calls' = r.st.calls
           /\ log' = MergeInto(log, r.evs)
           /\ retsum' = retsum + r.ret
           /\ raised' = r.err
           /\ last' = [op |-> "write", buf |-> SubSeq(body, offered + 1, offered + n),
                       before |-> mp, evs |-> r.evs, ret |-> r.ret]
    /\ offered' = offered + n
    /\ UNCHANGED <<body, oct, qs, parts>>

EdgeNext ==
    \/ \E n \in 1..Len(body) : EdgeWrite(n)
    \/ FormFinalize

SpecEdge == EdgeInit /\ [][EdgeNext]_vars

----------------------------------------------------------------------------
(* The caller of a MultipartParser with bodies that go wrong, or not, in    *)
(* the opening boundary line and in the header block of the first part.     *)

MaxHead == 4

\* every short byte string where the opening boundary is expected
StartBodies == SeqsUpTo({HYPHEN, LOWER_B, LOWER_X, CR, LF}, MaxHead + 1)

\* the opening boundary line and every short byte string after it
HeaderBodies ==
    {OpenBoundary \o h :
       h \in SeqsUpTo({CR, LF, COLON, SPACE, SEMICOLON, LOWER_B}, MaxHead)}

\* a header whose name is one byte, or 'b' and one byte, for every byte
NameBodies ==
    {OpenBoundary \o pre \o <<c, COLON, LOWER_B, CR, LF, CR, LF>> :
       pre \in {<<>>, <<LOWER_B>>}, c \in 0..255}

HeadInit ==
    /\ body \in StartBodies \cup HeaderBodies \cup NameBodies
    /\ Idle
    /\ mp = MultipartParserInit(Token, Inf)
    /\ oct = OctetStreamParserInit(Inf)
    /\ qs = QuerystringParserInit(FALSE, Inf)
    /\ NoForm

SpecHead == HeadInit /\ [][MPNext]_vars

----------------------------------------------------------------------------
(* The caller of a multipart FormParser whose first part names a            *)
(* Content-Transfer-Encoding, known or not, with UPLOAD_ERROR_ON_BAD_CTE    *)
(* set or not.                                                              *)

MaxCtePayload == 2

\* no header, a pass-through encoding, and values the code does not know:
\* b"x", b"" and b"BASE64"
CteValues == {None, <<CTE_BINARY>>, <<<<LOWER_X>>>>, <<<<>>>>, <<<<66, 65, 83, 69, 54, 52>>>>}

\* the part under test, alone or followed by a plain Field
CteBodies ==
    {<<p>> \o rest :
       p \in UNION {PartsOf(BOOLEAN, cte, SeqsUpTo({EQUALS, 52}, MaxCtePayload)) :
                      cte \in CteValues},
       rest \in {<<>>, <<[disp |-> TRUE, is_file |-> FALSE, cte |-> None,
                               payload |-> <<LOWER_X>>]>>}}

CteInit ==
    /\ parts \in CteBodies
    /\ body = RenderBody(parts)
    /\ Idle
    /\ \E flag \in BOOLEAN : form = [FormParserInit EXCEPT !.UPLOAD_ERROR_ON_BAD_CTE = flag]
    /\ objs = <<>>
    /\ calls = <<>>
    /\ mp = MultipartParserInit(Token, Inf)
    /\ oct = OctetStreamParserInit(Inf)
    /\ qs = QuerystringParserInit(FALSE, Inf)

\* the offsets at which a write may end: those of CutPoints and the last
\* bytes of the first header block
CteCuts ==
    CutPoints(parts) \cup ((Len(RenderUpTo(parts, 1)) - 4)..Len(RenderUpTo(parts, 1)))

CteNext ==
    \/ \E c \in CteCuts : c > offered /\ FormWrite(c - offered)
    \/ FormFinalize

SpecCte == CteInit /\ [][CteNext]_vars

----------------------------------------------------------------------------
(* parse_form on an application/octet-stream request: the stream, the       *)
(* Content-Length header (absent, or any integer) and chunk_size.           *)

MaxStream == 4
MaxChunk == 3

\* the streams: 'a', 'ab', ... with nothing, or some bytes, in them
Streams == {[i \in 1..k |-> LOWER_A + i - 1] : k \in 0..MaxStream}

\* input_stream.read(n) at position pos: n bytes or all that is left when
\* there is less (all that is left for n < 0); a raw stream may return
\* fewer bytes than asked for, and none only at the end of the stream
StreamRead(stream, pos, n, raw) ==
    LET left == Len(stream) - pos
        want == IF n < 0 THEN left ELSE Min(n, left)
    IN  {SubSeq(stream, pos + 1, pos + k) :
           k \in IF raw /\ want > 0 THEN 1..want ELSE {want}}

ParseFormInit ==
    /\ body \in Streams
    /\ parts \in {<<[content_length |-> cl, chunk_size |-> cs, raw |-> raw]>> :
                    cl \in {None} \cup {<<n>> : n \in (-1)..(MaxStream + 1)},
                    cs \in 1..MaxChunk, raw \in BOOLEAN}
    /\ Idle
    /\ form = [FormParserInit EXCEPT !.on_end = FALSE]
    /\ objs = <<>>
    /\ calls = <<>>
    /\ mp = MultipartParserInit(Token, Inf)
    /\ oct = OctetStreamParserInit(Inf)
    /\ qs = QuerystringParserInit(FALSE, Inf)

\* one iteration of `while True`: read, write, count, and break or not; log
\* keeps the calls made on the FormParser and offered is bytes_read
ParseFormIteration ==
    /\ last.op \in {"none", "write"}
    /\ \E max_readable \in {MaxReadable(parts[1].content_length, offered,
                                        parts[1].chunk_size)} :
        \E buff \in StreamRead(body, offered, max_readable, parts[1].raw) :
         \E r \in {OctetFormWrite([form |-> form, objs |-> objs, calls |-> calls],
                                  oct, buff)} :
           /\ oct' = r.parser
           /\ form' = r.st.form
           /\ objs' = r.st.objs
           /\ calls' = r.st.calls
           /\ log' = Append(log, [name |-> "write", data |-> buff])
           /\ retsum' = retsum + r.ret
           /\ offered' = offered + Len(buff)
           /\ last' = [op |-> IF LoopBreaks(buff, max_readable, offered + Len(buff),
                                            parts[1].content_length)
                              THEN "break" ELSE "write",
                       buf |-> buff, before |-> <<max_readable>>, evs |-> <<>>,
                       ret |-> r.ret]
    /\ UNCHANGED <<body, raised, mp, qs, parts>>

\* parser.finalize() after the loop
ParseFormFinalize ==
    /\ last.op = "break"
    /\ \E r \in {OctetFormFinalize([form |-> form, objs |-> objs, calls |-> calls],
                                   oct)} :
           /\ oct' = r.parser
           /\ form' = r.st.form
           /\ objs' = r.st.objs
           /\ calls' = r.st.calls
    /\ log' = Append(log, [name |-> "finalize", data |-> <<>>])
    /\ last' = [NoCall EXCEPT !.op = "finalize"]
    /\ UNCHANGED <<body, offered, retsum, raised, mp, qs, parts>>

ParseFormNext == ParseFormIteration \/ ParseFormFinalize

\* parse_form runs to its return: no iteration waits on anything but read
SpecParseForm == ParseFormInit /\ [][ParseFormNext]_vars /\ WF_vars(ParseFormNext)

----------------------------------------------------------------------------
(* A Base64Decoder or QuotedPrintableDecoder on its own: a stream written   *)
(* to it in chunks, then finalize() and close(), over an underlying object  *)
(* that may or may not have finalize() and close().                         *)

MaxPlain == 4
MaxJunk == 5
MaxQPUnits == 3
MaxDecoderWrites == 3

\* the underlying object: the arguments of its write calls, the calls made on
\* it, and whether it has the optional methods
Underlying(has_finalize, has_close) ==
    [writes |-> <<>>, ops |-> <<>>,
     has_finalize |-> has_finalize, has_close |-> has_close]

\* self.underlying.write(decoded), when the decoder makes the call
UnderlyingWrite(u, out) ==
    IF out = <<>> THEN u
    ELSE [u EXCEPT !.writes = Append(@, out[1]), !.ops = Append(@, "write")]

\* if hasattr(self.underlying, "finalize"): self.underlying.finalize()
UnderlyingFinalize(u) ==
    IF u.has_finalize THEN [u EXCEPT !.ops = Append(@, "finalize")] ELSE u

\* if hasattr(self.underlying, "close"): self.underlying.close()
UnderlyingClose(u) ==
    IF u.has_close THEN [u EXCEPT !.ops = Append(@, "close")] ELSE u

\* base64.b64encode(x), the encoder the decoder's input comes from
b2a_base64_char(v) ==
    IF v < 26 THEN 65 + v
    ELSE IF v < 52 THEN 97 + (v - 26)
    ELSE IF v < 62 THEN 48 + (v - 52)
    ELSE IF v = 62 THEN 43 ELSE 47

RECURSIVE b64encode(_)
b64encode(x) ==
    IF Len(x) = 0 THEN <<>>
    ELSE IF Len(x) = 1
      THEN <<b2a_base64_char(x[1] \div 4), b2a_base64_char((x[1] % 4) * 16),
             EQUALS, EQUALS>>
    ELSE IF Len(x) = 2
      THEN <<b2a_base64_char(x[1] \div 4),
             b2a_base64_char((x[1] % 4) * 16 + x[2] \div 16),
             b2a_base64_char((x[2] % 16) * 4), EQUALS>>
    ELSE <<b2a_base64_char(x[1] \div 4),
           b2a_base64_char((x[1] % 4) * 16 + x[2] \div 16),
           b2a_base64_char((x[2] % 16) * 4 + x[3] \div 64),
           b2a_base64_char(x[3] % 64)>> \o b64encode(SubSeq(x, 4, Len(x)))

\* the byte strings that are encoded
Plain == SeqsUpTo({0, LOWER_A, 255}, MaxPlain)

\* streams that are no encoder's output: 'Y' of the alphabet, padding and the
\* foreign byte '!' in any order, and two whole groups
JunkBytes == {89, EQUALS, 33}

JunkStreams ==
    SeqsUpTo(JunkBytes, MaxJunk)
      \cup {g \o h : g \in {s \in SeqsUpTo(JunkBytes, 4) : Len(s) = 4},
                     h \in {<<89, 89, 89, 89>>, <<89, 81, EQUALS, EQUALS>>,
                            <<89, 33, 89, 89>>, <<33, 33, 33, 33>>}}

\* quoted-printable streams: literals and the escapes '=41', '=CRLF', '=LF'
QPUnits == {<<LOWER_A>>, <<EQUALS, 52, 49>>, <<EQUALS, CR, LF>>, <<EQUALS, LF>>}

RECURSIVE QPStreams(_)
QPStreams(n) ==
    IF n = 0 THEN {<<>>}
    ELSE QPStreams(n - 1) \cup {s \o u : s \in QPStreams(n - 1), u \in QPUnits}

\* parts keeps what the stream was made from: the plain bytes, when it is
\* b64encode's output
DecoderInit ==
    /\ \/ /\ \E x \in Plain : body = b64encode(x) /\ parts = <<[plain |-> <<x>>]>>
          /\ form = [FormParserInit EXCEPT !.writer = Base64Decoder(1)]
       \/ /\ body \in JunkStreams
          /\ parts = <<[plain |-> None]>>
          /\ form = [FormParserInit EXCEPT !.writer = Base64Decoder(1)]
       \/ /\ body \in QPStreams(MaxQPUnits)
          /\ parts = <<[plain |-> None]>>
          /\ form = [FormParserInit EXCEPT !.writer = QuotedPrintableDecoder(1)]
    /\ \E has_finalize \in BOOLEAN, has_close \in BOOLEAN :
         objs = <<Underlying(has_finalize, has_close)>>
    /\ Idle
    /\ calls = <<>>
    /\ mp = MultipartParserInit(Token, Inf)
    /\ oct = OctetStreamParserInit(Inf)
    /\ qs = QuerystringParserInit(FALSE, Inf)

\* decoder.write(chunk) with the next n bytes of the stream
DecoderWrite(n) ==
    /\ raised = <<>>
    /\ last.op \in {"none", "write"}
    /\ Len(log) < MaxDecoderWrites
    /\ n \in 1..(Len(body) - offered)
    /\ \E r \in {IF form.writer.kind = "base64"
                 THEN Base64DecoderWrite(form.writer, SubSeq(body, offered + 1, offered + n))
                 ELSE QuotedPrintableDecoderWrite(form.writer,
                                                  SubSeq(body, offered + 1, offered + n))} :
         /\ form' = [form EXCEPT !.writer = r.writer]
         /\ objs' = [objs EXCEPT ![1] = UnderlyingWrite(@, r.out)]
         /\ raised' = r.err
         /\ retsum' = retsum + r.ret
         /\ last' = [op |-> "write", buf |-> SubSeq(body, offered + 1, offered + n),
                     before |-> form.writer, evs |-> r.out, ret |-> r.ret]
    /\ log' = Append(log, [name |-> "write",
                           data |-> SubSeq(body, offered + 1, offered + n)])
    /\ offered' = offered + n
    /\ UNCHANGED <<body, mp, oct, qs, parts, calls>>

\* decoder.finalize() once the stream is written
DecoderFinalize ==
    /\ raised = <<>>
    /\ last.op \in {"none", "write"}
    /\ offered = Len(body)
    /\ \E r \in {IF form.writer.kind = "base64"
                 THEN Base64DecoderFinalize(form.writer)
                 ELSE QuotedPrintableDecoderFinalize(form.writer)} :
         /\ form' = [form EXCEPT !.writer = r.writer]
         /\ objs' = [objs EXCEPT ![1] =
                       IF r.finalize_underlying
                       THEN UnderlyingFinalize(UnderlyingWrite(@, r.out))
                       ELSE @]
         /\ raised' = r.err
         /\ last' = [op |-> "finalize", buf |-> <<>>, before |-> form.writer,
                     evs |-> r.out, ret |-> 0]
    /\ log' = Append(log, [name |-> "finalize", data |-> <<>>])
    /\ UNCHANGED <<body, offered, retsum, mp, oct, qs, parts, calls>>

\* decoder.close(), after finalize() or after an error
DecoderClose ==
    /\ last.op # "close"
    /\ last.op = "finalize" \/ raised # <<>>
    /\ objs' = [objs EXCEPT ![1] = UnderlyingClose(@)]
    /\ last' = [op |-> "close", buf |-> <<>>, before |-> form.writer,
                evs |-> <<>>, ret |-> 0]
    /\ log' = Append(log, [name |-> "close", data |-> <<>>])
    /\ UNCHANGED <<body, offered, retsum, raised, form, mp, oct, qs, parts, calls>>

DecoderNext ==
    \/ \E n \in 1..Len(body) : DecoderWrite(n)
    \/ DecoderFinalize
    \/ DecoderClose

SpecDecoder == DecoderInit /\ [][DecoderNext]_vars

----------------------------------------------------------------------------
(* A Field on its own: write and finalize called on it in any order.        *)

MaxFieldCalls == 4

FieldInit ==
    /\ body = <<>>
    /\ parts = <<>>
    /\ Idle
    /\ form = FormParserInit
    /\ objs = <<Field(<<LOWER_A>>)>>
    /\ calls = <<>>
    /\ mp = MultipartParserInit(Token, Inf)
    /\ oct = OctetStreamParserInit(Inf)
    /\ qs = QuerystringParserInit(FALSE, Inf)

\* field.write(data); log keeps each call and the value property after it
FieldWriteCall(data) ==
    /\ Len(log) < MaxFieldCalls
    /\ objs' = [objs EXCEPT ![1] = FieldWrite(@, data)]
    /\ log' = Append(log, [name |-> "write", data |-> data,
                           value |-> FieldValue(FieldWrite(objs[1], data))])
    /\ last' = [op |-> "write", buf |-> data, before |-> <<objs[1]>>,
                evs |-> <<>>, ret |-> Len(data)]
    /\ retsum' = retsum + Len(data)
    /\ offered' = offered + Len(data)
    /\ UNCHANGED <<body, raised, mp, oct, qs, parts, form, calls>>

\* field.finalize()
FieldFinalizeCall ==
    /\ Len(log) < MaxFieldCalls
    /\ objs' = [objs EXCEPT ![1] = FieldFinalize(@)]
    /\ log' = Append(log, [name |-> "finalize", data |-> <<>>,
                           value |-> FieldValue(FieldFinalize(objs[1]))])
    /\ last' = [op |-> "finalize", buf |-> <<>>, before |-> <<objs[1]>>,
                evs |-> <<>>, ret |-> 0]
    /\ UNCHANGED <<body, offered, retsum, raised, mp, oct, qs, parts, form, calls>>

FieldNext ==
    \/ \E data \in {<<>>, <<LOWER_A>>, <<LOWER_B>>} : FieldWriteCall(data)
    \/ FieldFinalizeCall

SpecField == FieldInit /\ [][FieldNext]_vars

----------------------------------------------------------------------------
(* File with its file object: the in-memory buffer, the spill to disk and   *)
(* the path of the file on disk.                                            *)

\* bytes.rfind(c): the last offset of c in s, -1 when there is none
RFind(s, c) ==
    IF \E i \in 1..Len(s) : s[i] = c
    THEN (CHOOSE i \in 1..Len(s) : s[i] = c /\ \A j \in (i + 1)..Len(s) : s[j] # c) - 1
    ELSE -1

\* os.path.splitext(p): [base, ext]; the extension starts at the last '.'
\* after the last '/', unless only '.' bytes come before it in the name
splitext(p) ==
    LET sepIndex == RFind(p, 47)
        dotIndex == RFind(p, 46)
    IN  IF dotIndex > sepIndex /\ \E k \in (sepIndex + 1)..(dotIndex - 1) : At(p, k) # 46
        THEN [base |-> Slice(p, 0, dotIndex), ext |-> Slice(p, dotIndex, Len(p))]
        ELSE [base |-> p, ext |-> <<>>]

\* os.path.join(a, b): b alone when it starts with '/'
path_join(a, b) ==
    IF b # <<>> /\ b[1] = 47 THEN b
    ELSE IF a = <<>> \/ a[Len(a)] = 47 THEN a \o b
    ELSE a \o <<47>> \o b

\* BytesIO(): a file object is its content, its position, the path it was
\* opened under (None in memory) and whether it is closed
BytesIO == [content |-> <<>>, pos |-> 0, path |-> None, closed |-> FALSE]

\* open(path, "w+b") raises OSError for a path that names a directory: one
\* whose last component is empty, '.' or '..'; the directories of every
\* other path are there
OpenFails(path) ==
    SubSeq(path, RFind(path, 47) + 2, Len(path)) \in {<<>>, <<46>>, <<46, 46>>}

\* open(path, "w+b"), and NamedTemporaryFile, whose name is the path
DiskFile(path) == [content |-> <<>>, pos |-> 0, path |-> <<path>>, closed |-> FALSE]

\* fileobj.write(data) at the position of the file object
FileObjWrite(fo, data) ==
    [fo EXCEPT !.content = Slice(fo.content, 0, fo.pos) \o data
                             \o Slice(fo.content, Min(fo.pos + Len(data), Len(fo.content)),
                                      Len(fo.content)),
               !.pos = fo.pos + Len(data)]

\* the directory tempfile uses when dir is None, and the name it makes up
TempDir == <<47, 116>>
TempName == <<116, 109, 112>>

\* File.__init__; _file_base and _ext exist only when file_name is not None
FileInit(file_name, field_name, config) ==
    [is_file |-> TRUE, config |-> config, in_memory |-> TRUE, bytes_written |-> 0,
     fileobj |-> BytesIO, field_name |-> field_name, file_name |-> file_name,
     actual_file_name |-> None,
     file_base |-> IF file_name = None THEN None ELSE <<splitext(file_name[1]).base>>,
     ext |-> IF file_name = None THEN None ELSE <<splitext(file_name[1]).ext>>]

\* File._get_disk_file(): [f, new_file, err]
get_disk_file(f) ==
    LET file_dir == f.config.UPLOAD_DIR
        keep_filename == f.config.UPLOAD_KEEP_FILENAME
        keep_extensions == f.config.UPLOAD_KEEP_EXTENSIONS
    IN  IF file_dir # None /\ keep_filename
        THEN IF f.file_base = None
             THEN [f |-> f, new_file |-> None, err |-> <<"AttributeError">>]
             ELSE LET fname == IF keep_extensions THEN f.file_base[1] \o f.ext[1]
                               ELSE f.file_base[1]
                      path == path_join(file_dir[1], fname)
                  IN  IF OpenFails(path)
                      THEN [f |-> f, new_file |-> None, err |-> <<"FileError">>]
                      ELSE [f |-> [f EXCEPT !.actual_file_name = <<fname>>],
                            new_file |-> <<DiskFile(path)>>,
                            err |-> <<>>]
        ELSE IF keep_extensions /\ f.ext = None
             THEN [f |-> f, new_file |-> None, err |-> <<"AttributeError">>]
             ELSE LET suffix == IF keep_extensions THEN f.ext[1] ELSE <<>>
                      dir == IF file_dir = None THEN TempDir ELSE file_dir[1]
                      fname == path_join(dir, TempName \o suffix)
                  IN  [f |-> [f EXCEPT !.actual_file_name = <<fname>>],
                       new_file |-> <<DiskFile(fname)>>,
                       err |-> <<>>]

\* File.flush_to_disk(): [f, err]
flush_to_disk_without_copy(f) ==
    IF ~f.in_memory THEN [f |-> f, err |-> <<>>]
    ELSE LET r == get_disk_file([f EXCEPT !.fileobj.pos = 0])
         IN  IF r.err # <<>> THEN [f |-> r.f, err |-> r.err]
             ELSE [f |-> [r.f EXCEPT !.fileobj = [r.new_file[1] EXCEPT
                                                    !.pos = f.bytes_written],
                                     !.in_memory = FALSE],
                   err |-> <<>>]

flush_to_disk(f) ==
    IF ~f.in_memory THEN [f |-> f, err |-> <<>>]
    ELSE LET r == get_disk_file([f EXCEPT !.fileobj.pos = 0])
         IN  IF r.err # <<>> THEN [f |-> r.f, err |-> r.err]
             ELSE [f |-> [r.f EXCEPT !.fileobj = [r.new_file[1] EXCEPT
                                                    !.content = f.fileobj.content,
                                                    !.pos = f.bytes_written],
                                     !.in_memory = FALSE],
                   err |-> <<>>]

\* File.write(data), File.on_data(data): [f, ret, err]
file_on_data(f, data) ==
    LET g == [f EXCEPT !.fileobj = FileObjWrite(@, data),
                       !.bytes_written = @ + Len(data)]
        max_memory_file_size == f.config.MAX_MEMORY_FILE_SIZE
    IN  IF /\ g.in_memory /\ max_memory_file_size # None
           /\ g.bytes_written > max_memory_file_size[1]
        THEN [f |-> flush_to_disk(g).f,
              ret |-> IF flush_to_disk(g).err = <<>> THEN Len(data) ELSE 0,
              err |-> flush_to_disk(g).err]
        ELSE [f |-> g, ret |-> Len(data), err |-> <<>>]

\* File.finalize(), File.on_end(): the file object is flushed
file_on_end(f) == f

MaxName == 3
MaxFileCalls == 3

\* declared filenames: 'a', '.', '/' and '\' in any order, or none
FileNames == {None} \cup {<<n>> : n \in SeqsUpTo({LOWER_A, 46, 47, BACKSLASH}, MaxName)}

UploadDir == <<47, LOWER_X>>

FileConfigs ==
    [UPLOAD_DIR : {None, <<UploadDir>>}, UPLOAD_KEEP_FILENAME : BOOLEAN,
     UPLOAD_KEEP_EXTENSIONS : BOOLEAN, MAX_MEMORY_FILE_SIZE : {None, <<1>>, <<2>>}]

FileHarnessInit ==
    /\ body = <<>>
    /\ parts = <<>>
    /\ Idle
    /\ form = FormParserInit
    /\ \E file_name \in FileNames, config \in FileConfigs :
         objs = <<FileInit(file_name, <<LOWER_A>>, config)>>
    /\ calls = <<>>
    /\ mp = MultipartParserInit(Token, Inf)
    /\ oct = OctetStreamParserInit(Inf)
    /\ qs = QuerystringParserInit(FALSE, Inf)

\* file.write(data); log keeps the calls and last the File before the call
FileWriteCall(data) ==
    /\ raised = <<>>
    /\ Len(log) < MaxFileCalls
    /\ \E r \in {file_on_data(objs[1], data)} :
         /\ objs' = <<r.f>>
         /\ raised' = r.err
         /\ retsum' = retsum + r.ret
         /\ last' = [op |-> "write", buf |-> data, before |-> <<objs[1]>>,
                     evs |-> <<>>, ret |-> r.ret]
    /\ log' = Append(log, [name |-> "write", data |-> data])
    /\ offered' = offered + Len(data)
    /\ UNCHANGED <<body, mp, oct, qs, parts, form, calls>>

\* file.flush_to_disk()
FileFlushCall ==
    /\ raised = <<>>
    /\ Len(log) < MaxFileCalls
    /\ \E r \in {flush_to_disk(objs[1])} :
         /\ objs' = <<r.f>>
         /\ raised' = r.err
    /\ last' = [op |-> "flush_to_disk", buf |-> <<>>, before |-> <<objs[1]>>,
                evs |-> <<>>, ret |-> 0]
    /\ log' = Append(log, [name |-> "flush_to_disk", data |-> <<>>])
    /\ UNCHANGED <<body, offered, retsum, mp, oct, qs, parts, form, calls>>

\* file.finalize()
FileFinalizeCall ==
    /\ raised = <<>>
    /\ Len(log) < MaxFileCalls
    /\ objs' = <<file_on_end(objs[1])>>
    /\ last' = [op |-> "finalize", buf |-> <<>>, before |-> <<objs[1]>>,
                evs |-> <<>>, ret |-> 0]
    /\ log' = Append(log, [name |-> "finalize", data |-> <<>>])
    /\ UNCHANGED <<body, offered, retsum, raised, mp, oct, qs, parts, form, calls>>

FileNext ==
    \/ \E data \in {<<49>>, <<50, 50>>} : FileWriteCall(data)
    \/ FileFlushCall
    \/ FileFinalizeCall

SpecFile == FileHarnessInit /\ [][FileNext]_vars

----------------------------------------------------------------------------
(* parse_options_header on its own: one call with a header value, or None.  *)

MaxHeaderLen == 5

\* header values: 'A', 'b', ';', '=', ' ' and '"' in any order
HeaderValues == SeqsUpTo({65, LOWER_B, SEMICOLON, EQUALS, SPACE, DQUOTE}, MaxHeaderLen)

PohInit ==
    /\ \E value \in {None} \cup {<<v>> : v \in HeaderValues} :
         /\ parts = <<[value |-> value]>>
         /\ body = IF value = None THEN <<>> ELSE value[1]
    /\ Idle
    /\ form = FormParserInit
    /\ objs = <<>>
    /\ calls = <<>>
    /\ mp = MultipartParserInit(Token, Inf)
    /\ oct = OctetStreamParserInit(Inf)
    /\ qs = QuerystringParserInit(FALSE, Inf)

\* parse_options_header(value); last.evs keeps what it returns
PohCall ==
    /\ last.op = "none"
    /\ \E r \in {parse_options_header(parts[1].value)} :
         last' = [op |-> "parse_options_header", buf |-> body, before |-> <<>>,
                  evs |-> <<r>>, ret |-> 0]
    /\ UNCHANGED <<body, offered, log, retsum, raised, mp, oct, qs, parts, form,
                   objs, calls>>

SpecPoh == PohInit /\ [][PohCall]_vars

----------------------------------------------------------------------------------------------------------------------------------------
(* The caller of a multipart FormParser, of either package, for bodies of   *)
(* two parts in which each part has or omits each of the                    *)
(* Content-Disposition name, its filename and Content-Transfer-Encoding:    *)
(* base64.                                                                  *)

MaxPartData == 1

\* the headers a part may have
HeaderChoices ==
    {[disp |-> d.disp, is_file |-> d.is_file, cte |-> cte] :
       d \in {[disp |-> FALSE, is_file |-> FALSE], [disp |-> TRUE, is_file |-> FALSE],
              [disp |-> TRUE, is_file |-> TRUE]},
       cte \in {None, <<CTE_BASE64>>}}

\* two parts with the same data, of 'Y's
TwoParts ==
    {[k \in 1..2 |-> [disp |-> h[k].disp, is_file |-> h[k].is_file, cte |-> h[k].cte,
                      payload |-> pl]] :
       h \in [1..2 -> HeaderChoices], pl \in SeqsUpTo({89}, MaxPartData)}

PartsHarnessInit ==
    /\ parts \in TwoParts
    /\ body = RenderBody(parts)
    /\ Idle
    /\ \E package \in {"python_multipart", "multipart"} :
          form = [FormParserInit EXCEPT !.package = package]
    /\ objs = <<>>
    /\ calls = <<>>
    /\ mp = MultipartParserInit(Token, Inf)
    /\ oct = OctetStreamParserInit(Inf)
    /\ qs = QuerystringParserInit(FALSE, Inf)

SpecParts == PartsHarnessInit /\ [][FormNext]_vars

----------------------------------------------------------------------------
(* The caller of a FormParser for application/octet-stream: any number of   *)
(* writes, empty ones among them, of the bytes of a body, with or without   *)
(* MAX_BODY_SIZE, then finalize. log keeps the bytes each write accepted.   *)

MaxOctetBody == 3
MaxOctetCalls == 3

OctetFormInit ==
    /\ body \in SeqsUpTo({LOWER_A, LOWER_B}, MaxOctetBody)
    /\ Idle
    /\ parts = <<>>
    /\ form = FormParserInit
    /\ objs = <<>>
    /\ calls = <<>>
    /\ mp = MultipartParserInit(Token, Inf)
    /\ \E MAX_BODY_SIZE \in {Inf, 1, 2} : oct = OctetStreamParserInit(MAX_BODY_SIZE)
    /\ qs = QuerystringParserInit(FALSE, Inf)

OctetFormWriteCall(n) ==
    /\ last.op # "finalize"
    /\ Len(log) < MaxOctetCalls
    /\ offered + n <= Len(body)
    /\ \E r \in {OctetFormWrite([form |-> form, objs |-> objs, calls |-> calls],
                                 oct, SubSeq(body, offered + 1, offered + n))} :
           /\ oct' = r.parser
           /\ form' = r.st.form
           /\ objs' = r.st.objs
           /\ calls' = r.st.calls
           /\ raised' = r.st.form.err
           /\ log' = Append(log, [name |-> "write",
                                  data |-> SubSeq(body, offered + 1, offered + r.ret)])
           /\ retsum' = retsum + r.ret
           /\ last' = [op |-> "write", buf |-> SubSeq(body, offered + 1, offered + n),
                       before |-> <<>>, evs |-> <<>>, ret |-> r.ret]
    /\ offered' = offered + n
    /\ UNCHANGED <<body, mp, qs, parts>>

OctetFormFinalizeCall ==
    /\ last.op # "finalize"
    /\ \E r \in {OctetFormFinalize([form |-> form, objs |-> objs, calls |-> calls], oct)} :
           /\ oct' = r.parser
           /\ form' = r.st.form
           /\ objs' = r.st.objs
           /\ calls' = r.st.calls
           /\ raised' = r.st.form.err
    /\ last' = [NoCall EXCEPT !.op = "finalize"]
    /\ UNCHANGED <<body, offered, log, retsum, mp, qs, parts>>

OctetFormNext ==
    \/ \E n \in 0..Len(body) : OctetFormWriteCall(n)
    \/ OctetFormFinalizeCall

SpecOctetForm == OctetFormInit /\ [][OctetFormNext]_vars

----------------
(* Reference definitions the claims are stated against.                     *)

IsPrefix(p, s) == Len(p) <= Len(s) /\ SubSeq(s, 1, Len(p)) = p

\* what one write of the first n bytes of body gives a fresh, uncapped parser
SingleWriteOf(n) == MultipartWrite(MultipartParserInit(Token, Inf), SubSeq(body, 1, n))

SingleWrite == SingleWriteOf(offered)

SingleLog == MergeInto(<<>>, SingleWrite.evs)

\* offset in body at which the first part's data starts, -1 when body does not
\* open with a boundary line and a well-formed header block
PartDataStart ==
    IF IsPrefix(OneHeader, body) THEN Len(OneHeader)
    ELSE IF IsPrefix(NoHeaders, body) THEN Len(NoHeaders)
    ELSE -1

\* the part bytes received so far
Region == SubSeq(body, PartDataStart + 1, offered)

\* offsets in r of CRLF "--" token followed by CRLF or by "--"
Terminators(r) ==
    {k \in 0..(Len(r) - Len(Delimiter) - 2) :
        /\ Slice(r, k, k + Len(Delimiter)) = Delimiter
        /\ Slice(r, k + Len(Delimiter), k + Len(Delimiter) + 2)
              \in {<<CR, LF>>, <<HYPHEN, HYPHEN>>}}

FirstTerminator(r) == CHOOSE k \in Terminators(r) : \A m \in Terminators(r) : k <= m

\* the merged part_data of the first part, as delivered so far
FirstPartData ==
    LET hf == {k \in 1..Len(log) : log[k].name = "headers_finished"}
        h == CHOOSE k \in hf : \A m \in hf : k <= m
    IN  IF hf = {} THEN <<>>
        ELSE IF h < Len(log) /\ log[h + 1].name = "part_data" THEN log[h + 1].data
        ELSE <<>>

FirstPartEnded == \E k \in 1..Len(log) : log[k].name = "part_end"

----------------------------------------------------------------------------
(* Claims.                                                                  *)

\* C1 as stated: whatever the chunking, the merged events equal those of one
\* write of the same bytes, and an error is raised in one run iff in the other.
ChunkingSame ==
    /\ (raised = <<>>) <=> (SingleWrite.err = <<>>)
    /\ log = SingleLog

\* C1 (amended): an error is raised in the chunked run iff one write of the
\* same bytes raises; without an error the merged events are equal; with an
\* error the chunked run delivered the single write's events, followed at most
\* by the header-name bytes it had to flush at the end of an earlier chunk.
ChunkingInvariance ==
    /\ (raised = <<>>) <=> (SingleWrite.err = <<>>)
    /\ raised = <<>> => log = SingleLog
    /\ raised # <<>> =>
          \/ log = SingleLog
          \/ /\ Len(log) = Len(SingleLog) + 1
             /\ SubSeq(log, 1, Len(SingleLog)) = SingleLog
             /\ log[Len(log)].name = "header_field"

\* a boundary candidate is withheld at the end of a chunk, after part data
ChunkingWitness ==
    /\ mp.state = "PART_DATA"
    /\ mp.index > 0
    /\ mp.marks.part_data = <<-mp.index>>
    /\ FirstPartData # <<>>
    /\ offered < Len(body)

\* C2: the part data delivered for the first part is exactly the bytes before
\* the first CRLF "--" token that is followed by CRLF or "--"; until that has
\* been received the part does not end and every received byte is either
\* delivered or is one of the last index bytes, withheld as a candidate.
PartDataVerbatim ==
    (PartDataStart >= 0 /\ offered >= PartDataStart) =>
        IF Terminators(Region) # {}
        THEN /\ FirstPartEnded
             /\ FirstPartData = Slice(Region, 0, FirstTerminator(Region))
        ELSE /\ ~FirstPartEnded
             /\ mp.index <= Len(Region)
             /\ FirstPartData = Slice(Region, 0, Len(Region) - mp.index)

\* a part ended whose data holds a false candidate: the whole delimiter
\* followed by a byte that does not complete it
PartDataWitness ==
    /\ FirstPartEnded
    /\ raised = <<>>
    /\ \E k \in 0..Len(FirstPartData) :
          /\ Slice(FirstPartData, k, k + Len(Delimiter)) = Delimiter
          /\ Len(FirstPartData) > k + Len(Delimiter)

\* C6: without an error the returned values sum to min(offered, max_size),
\* _current_size is that sum and stays within max_size, and the events are
\* those of the first max_size bytes alone.
MPAccounting ==
    raised = <<>> =>
        /\ retsum = Min(offered, mp.max_size)
        /\ mp.current_size = retsum
        /\ mp.current_size <= mp.max_size
        /\ LET ref == SingleWriteOf(Min(offered, mp.max_size))
           IN  ref.err = <<>> /\ log = MergeInto(<<>>, ref.evs)

\* more was offered than the cap, part of it inside a part's data
MPAccountingWitness ==
    /\ raised = <<>>
    /\ offered > mp.max_size + 1
    /\ retsum = mp.max_size
    /\ mp.state = "PART_DATA"
    /\ FirstPartData # <<>>

\* the events of a given name among evs
Named(evs, name) == SelectSeq(evs, LAMBDA e : e.name = name)

\* min(n, max_size), max_size possibly infinite
Capped(n, max_size) == IF max_size = Inf THEN n ELSE Min(n, max_size)

\* the number of bytes of the last write's buffer that fit under the cap
LastAccepted ==
    IF last.before.max_size = Inf THEN Len(last.buf)
    ELSE Max(0, Min(Len(last.buf), last.before.max_size - last.before.current_size))

\* C7: QuerystringParser.write returns the number of bytes that fit under
\* max_size; the returned values sum to min(offered, max_size), which is also
\* _current_size, never above max_size.
QSAccounting ==
    raised = <<>> =>
        /\ last.op = "write" => last.ret = LastAccepted
        /\ retsum = Capped(offered, qs.max_size)
        /\ qs.current_size = retsum
        /\ qs.max_size # Inf => qs.current_size <= qs.max_size

\* C8: a QuerystringParser.write has the events, the error and the next state
\* of a write of the accepted bytes alone: nothing at or after the accepted
\* length is reported or looked at.
QSWithinCap ==
    last.op = "write" =>
        LET ref == QuerystringWrite([last.before EXCEPT !.max_size = Inf],
                                    Slice(last.buf, 0, LastAccepted))
        IN  /\ last.evs = ref.evs
            /\ raised = ref.err
            /\ raised = <<>> => /\ qs.state = ref.parser.state
                                /\ qs.found_sep = ref.parser.found_sep

\* C9 as stated: every write fires exactly one data event, carrying the
\* accepted bytes buf[0:k], and returns k; the returned values sum to
\* min(offered, max_size).
OctOneDataPerWrite ==
    /\ last.op = "write" =>
          /\ Named(last.evs, "data")
                = <<[name |-> "data", data |-> Slice(last.buf, 0, LastAccepted)]>>
          /\ last.ret = LastAccepted
    /\ retsum = Capped(offered, oct.max_size)

\* C9 (amended): every write returns k, the number of bytes that fit under the
\* cap, and fires one data event carrying buf[0:k] when k > 0 and no data
\* event when k = 0; the returned values sum to min(offered, max_size) and the
\* data delivered in all is the first min(offered, max_size) bytes offered.
OctDataPerWrite ==
    /\ last.op = "write" =>
          /\ Named(last.evs, "data")
                = IF LastAccepted > 0
                  THEN <<[name |-> "data", data |-> Slice(last.buf, 0, LastAccepted)]>>
                  ELSE <<>>
          /\ last.ret = LastAccepted
    /\ retsum = Capped(offered, oct.max_size)
    /\ oct.current_size = retsum
    /\ LET delivered == Named(log, "data")
       IN  IF retsum = 0 THEN delivered = <<>>
           ELSE delivered = <<[name |-> "data", data |-> Slice(body, 0, retsum)]>>

\* a write that the cap cut short, and a later one that found the cap reached
OctDataWitness ==
    /\ last.op = "write"
    /\ last.buf # <<>>
    /\ last.ret = 0
    /\ retsum = oct.max_size
    /\ offered > retsum + 1

\* C10 as stated: start is fired once, by the first write of a non-empty
\* buffer, and before any data; end is fired by finalize alone.
OctStartOnData ==
    /\ Len(Named(log, "start")) <= 1
    /\ Named(log, "start") # <<>> <=> offered > 0
    /\ Named(log, "data") # <<>> => log[1].name = "start"
    /\ last.op = "write" => Named(log, "end") = <<>>
    /\ last.op = "finalize" => Len(Named(log, "end")) = 1 /\ log[Len(log)].name = "end"

\* C10 (amended): start is fired exactly once, by the first write whatever its
\* buffer holds, and before any data; end is fired by finalize alone.
OctStartOnFirstWrite ==
    /\ Len(Named(log, "start")) <= 1
    /\ last.op = "none" => log = <<>>
    /\ last.op = "write" =>
          /\ log # <<>> /\ log[1].name = "start"
          /\ Named(last.evs, "start") # <<>> <=> ~last.before.started
          /\ Named(log, "end") = <<>>
    /\ last.op = "finalize" =>
          /\ Len(Named(log, "end")) = 1 /\ log[Len(log)].name = "end"
          /\ last.before.started <=> Len(log) > 1
          /\ Len(log) > 1 => log[1].name = "start"

\* the first write was an empty one
OctStartWitness ==
    /\ last.op = "write"
    /\ last.buf = <<>>
    /\ offered = 0
    /\ log = <<[name |-> "start", data |-> <<>>]>>

----------------------------------------------------------------------------
(* The FormParser's deliveries.                                             *)

\* the transfer decoding of a whole part body
Decoded(part) ==
    IF part.cte = <<CTE_BASE64>> THEN b64decode(part.payload).out
    ELSE IF part.cte = <<CTE_QUOTED_PRINTABLE>> THEN a2b_qp(part.payload)
    ELSE part.payload

\* a base64 body is made of whole 4-byte groups, padded at its end only
WellEncoded(part) ==
    part.cte = <<CTE_BASE64>> =>
        /\ Len(part.payload) % 4 = 0
        /\ b64decode(part.payload).ok
        /\ Len(Decoded(part)) + 2 >= 3 * (Len(part.payload) \div 4)

\* the on_field / on_file invocations
Deliveries == SelectSeq(calls, LAMBDA c : c.cb # "on_end")

\* C3: a body of n complete parts gets exactly n user callbacks, in part
\* order, each at its part's part_end: on_file with a File (field name,
\* file name, content) when the part's Content-Disposition has a filename,
\* otherwise on_field with a Field; the content delivered is the part's body
\* after its transfer decoding; on_end is invoked once, after the last part's
\* callback.
FormDelivers ==
    /\ Len(Deliveries) = Len(Named(log, "part_end"))
    /\ \A i \in 1..Len(calls) :
          IF calls[i].cb = "on_end" THEN i = Len(parts) + 1
          ELSE /\ i <= Len(parts)
               /\ calls[i].cb = (IF parts[i].is_file THEN "on_file" ELSE "on_field")
               /\ objs[calls[i].obj].is_file = parts[i].is_file
               /\ calls[i].field_name = <<PartName(i)>>
               /\ calls[i].file_name = (IF parts[i].is_file THEN <<PartFileName>> ELSE None)
               /\ WellEncoded(parts[i]) => calls[i].content = Decoded(parts[i])
    /\ (offered = Len(body) /\ form.err = <<>> /\ raised = <<>>) =>
          Len(calls) = Len(parts) + 1

\* C4: at every part_end the part's writer (the decoder, when one was
\* installed) has been finalized, and then the File or Field, before on_file
\* or on_field runs: no residue of the part is left in a decoder when its
\* callback runs.
WriterFinalizedAtPartEnd ==
    \A i \in 1..Len(Deliveries) :
        /\ Deliveries[i].writer_finalized
        /\ Deliveries[i].residue = <<>>

\* C5: once a File or Field was passed to on_file or on_field, the FormParser
\* neither writes to it nor finalizes it again.
NoTouchAfterHandOver ==
    \A k \in 1..Len(objs) :
        \A i \in 1..Len(objs[k].ops) :
            objs[k].ops[i] = "handed" => i = Len(objs[k].ops)

----------------------------------------------------------------------------
(* The urlencoded FormParser's deliveries.                                  *)

\* the on_field invocations, and what an item should deliver
FieldCalls == SelectSeq(calls, LAMBDA c : c.cb = "on_field")
Delivered(c, it) == c.field_name = <<it.name>> /\ c.value = it.value

\* the items that are followed by a separator
Separated == SelectSeq(parts, LAMBDA it : it.sep # <<>>)

\* C11: when finalize finds the parser in FIELD_NAME (a name that ran to the
\* end of the input without '='), the field is closed, field_end before end,
\* and on_field gets a Field with the accumulated name and the null value.
BareNameAtEndReported ==
    (last.op = "finalize" /\ qs.state = "FIELD_NAME") =>
        /\ Len(log) >= 3
        /\ log[Len(log)].name = "end"
        /\ log[Len(log) - 1].name = "field_end"
        /\ log[Len(log) - 2].name = "field_name"
        /\ Len(calls) >= 2
        /\ calls[Len(calls)].cb = "on_end"
        /\ calls[Len(calls) - 1].cb = "on_field"
        /\ calls[Len(calls) - 1].field_name = <<log[Len(log) - 2].data>>
        /\ calls[Len(calls) - 1].value = None

\* C12: a name that a separator ends without any '=' is delivered, in input
\* order with the other fields, as a Field with that name and the null
\* value, and its bytes are in no other field's name, under every chunking.
BareNameDelivered ==
    offered = Len(body) =>
        /\ Len(FieldCalls) >= Len(Separated)
        /\ \A i \in 1..Len(Separated) :
              /\ FieldCalls[i].field_name = <<parts[i].name>>
              /\ parts[i].value = None => FieldCalls[i].value = None

\* C13: a field written name= (an '=' and an empty value, ended by a
\* separator or by the end of the input) is delivered with the empty byte
\* string as its value, not the null value; set_none is for bare names only.
EmptyValueKept ==
    (last.op = "finalize" /\ offered = Len(body)) =>
        \A i \in 1..Len(parts) :
            parts[i].value = <<<<>>>> =>
                /\ Len(FieldCalls) >= i
                /\ FieldCalls[i].field_name = <<parts[i].name>>
                /\ FieldCalls[i].value = <<<<>>>>
                /\ "set_none" \notin {objs[FieldCalls[i].obj].ops[j] :
                                        j \in 1..Len(objs[FieldCalls[i].obj].ops)}

\* the body is name=value items (bare names for null values) joined by '&'
JoinedByAmpersand ==
    \A i \in 1..Len(parts) :
        parts[i].sep = (IF i < Len(parts) THEN <<AMPERSAND>> ELSE <<>>)

\* C14: round trip: the pairs a body was built from, joined by '&', are the
\* pairs delivered to on_field, in order, null and empty values kept as
\* such, under every chunking followed by finalize.
QuerystringRoundTrip ==
    (last.op = "finalize" /\ offered = Len(body) /\ JoinedByAmpersand) =>
        /\ Len(FieldCalls) = Len(parts)
        /\ \A i \in 1..Len(parts) : Delivered(FieldCalls[i], parts[i])
        /\ calls = FieldCalls \o <<calls[Len(calls)]>>
        /\ calls[Len(calls)].cb = "on_end"

----------------------------------------------------------------------------
(* QuerystringParser: separators, strict mode.                              *)

IsSep(c) == c = AMPERSAND \/ c = SEMICOLON

\* offsets into body are 0-based; the item that the separator at t ends
\* starts after the last separator before t
ItemStart(t) == Max(0, Max(-1, CHOOSE m \in {-1} \cup {j \in 0..(t - 1) : IsSep(At(body, j))} :
                              \A j \in 0..(t - 1) : IsSep(At(body, j)) => j <= m) + 1)

\* a separator right after a separator, and a separator that ends a
\* non-empty name holding no '='
DoubleSepAt(t) == t >= 1 /\ t < Len(body) /\ IsSep(At(body, t)) /\ IsSep(At(body, t - 1))
BareEndAt(t) ==
    /\ t >= 1 /\ t < Len(body) /\ IsSep(At(body, t)) /\ ~IsSep(At(body, t - 1))
    /\ \A j \in ItemStart(t)..(t - 1) : At(body, j) # EQUALS

\* the first offset at which strict parsing has to fail, -1 when there is none
FirstError ==
    IF \E t \in 0..(Len(body) - 1) : DoubleSepAt(t) \/ BareEndAt(t)
    THEN CHOOSE t \in 0..(Len(body) - 1) :
           /\ DoubleSepAt(t) \/ BareEndAt(t)
           /\ \A u \in 0..(t - 1) : ~(DoubleSepAt(u) \/ BareEndAt(u))
    ELSE -1

\* the fields that begin in the bytes offered so far
FieldsBegun ==
    Cardinality({j \in 0..(offered - 1) :
                   ~IsSep(At(body, j)) /\ (j = 0 \/ IsSep(At(body, j - 1)))})

\* the whole body in one write, then finalize
QSSingleLog ==
    LET w == QuerystringWrite(QuerystringParserInit(qs.strict_parsing, qs.max_size), body)
    IN  MergeInto(MergeInto(<<>>, w.evs), QuerystringFinalize(w.parser).evs)

\* C15: chunking invariance of the lax QuerystringParser: any chunks of a
\* body and finalize give the events, with the same joined field_name and
\* field_data bytes, of one write of the body and finalize.
QSChunkingInvariance ==
    (~qs.strict_parsing /\ qs.max_size = Inf /\ last.op = "finalize"
        /\ offered = Len(body)) => log = QSSingleLog

\* C16: in strict mode a separator right after a separator raises
\* QuerystringParseError with offset its index in the chunk being written
\* (its position in the stream less the values earlier writes returned),
\* whatever the chunks; in lax mode nothing is raised and the second
\* separator begins no field.
StrictDoubleSeparator ==
    qs.max_size = Inf =>
        /\ (qs.strict_parsing /\ FirstError # -1 /\ DoubleSepAt(FirstError)) =>
              /\ raised # <<>> <=> offered > FirstError
              /\ raised # <<>> => raised = <<FirstError - retsum>>
        /\ ~qs.strict_parsing =>
              /\ raised = <<>>
              /\ Len(Named(log, "field_start")) = FieldsBegun

\* C17: in strict mode a name ended by a separator without '=' raises
\* QuerystringParseError with offset the index in the chunk at which the
\* name, or the part of it in that chunk, starts, whatever the chunks, and
\* no field_end is emitted for the field.
StrictBareName ==
    (qs.max_size = Inf /\ qs.strict_parsing /\ FirstError # -1
        /\ BareEndAt(FirstError)) =>
        /\ raised # <<>> <=> offered > FirstError
        /\ raised # <<>> =>
              /\ raised = <<Max(0, ItemStart(FirstError) - (offered - Len(last.buf)))>>
              /\ Len(Named(log, "field_end")) + 1 = Len(Named(log, "field_start"))

----------------------------------------------------------------------------
(* MultipartParser: before the first boundary and after the last.           *)

\* the bytes before the first boundary are CR and LF only; the offset of the
\* first that is not
CleanLead == \A j \in 1..Len(parts[1].lead) : parts[1].lead[j] \in {CR, LF}
FirstJunk ==
    CHOOSE j \in 0..(Len(parts[1].lead) - 1) :
        /\ At(parts[1].lead, j) \notin {CR, LF}
        /\ \A u \in 0..(j - 1) : At(parts[1].lead, u) \in {CR, LF}

\* the merged events of one write of bytes to a fresh MultipartParser
FreshLog(bytes) ==
    MergeInto(<<>>, MultipartWrite(MultipartParserInit(Token, Inf), bytes).evs)

\* the offset at which the closing delimiter is complete
EndOffset == Len(parts[1].lead) + Len(parts[1].core)

\* C18: a body that is the opening boundary and '--' takes the parser
\* START, START_BOUNDARY, END_BOUNDARY, END and gives one end event and no
\* other event, under every chunking; the FormParser calls on_end once and
\* neither on_field nor on_file.
BodyWithoutParts ==
    (parts[1].core = NoParts /\ CleanLead /\ form.err = <<>>) =>
        /\ raised = <<>>
        /\ parts[1].lead = <<>> =>
              mp.state = (CASE offered = 0 -> "START"
                            [] offered \in 1..(Len(NoParts) - 2) -> "START_BOUNDARY"
                            [] offered = Len(NoParts) - 1 -> "END_BOUNDARY"
                            [] OTHER -> "END")
        /\ offered < EndOffset => log = <<>> /\ calls = <<>>
        /\ offered >= EndOffset =>
              /\ mp.state = "END"
              /\ log = <<[name |-> "end", data |-> <<>>]>>
              /\ Len(calls) = 1 /\ calls[1].cb = "on_end"
              /\ objs = <<>>

BodyWithoutPartsWitness ==
    /\ parts[1].core = NoParts /\ parts[1].lead = <<>> /\ parts[1].trail = <<>>
    /\ offered = Len(body)
    /\ last.op = "write" /\ Len(last.buf) < Len(body)
    /\ mp.state = "END"
    /\ Len(calls) = 1

\* C19: CR and LF bytes before the first boundary, however split over the
\* writes, are passed over in START with no event and no error, and the
\* rest of the body gives the events it gives without them; any other byte
\* before the first '--' is a MultipartParseError.
LeadingNewlines ==
    /\ CleanLead =>
          /\ raised = <<>>
          /\ offered <= Len(parts[1].lead) => log = <<>> /\ mp.state = "START"
          /\ offered >= Len(parts[1].lead) =>
                log = FreshLog(SubSeq(body, Len(parts[1].lead) + 1, offered))
    /\ ~CleanLead =>
          /\ log = <<>>
          /\ raised # <<>> <=> offered > FirstJunk
          /\ raised # <<>> => raised[1] = FirstJunk - retsum

LeadingNewlinesWitness ==
    /\ CleanLead /\ Len(parts[1].lead) >= 2
    /\ parts[1].core = OnePart
    /\ offered = Len(body)
    /\ last.op = "write" /\ Len(last.buf) < Len(body) - 1
    /\ Len(log) > 1

\* C20: once the parser is in END a write gives no event, raises nothing,
\* leaves the state END and returns the length of its chunk.
AfterEnd ==
    (CleanLead /\ offered >= EndOffset) =>
        /\ mp.state = "END"
        /\ raised = <<>>
        /\ form.err = <<>>
        /\ retsum = offered
        /\ log = FreshLog(parts[1].core)
        /\ (last.op = "write" /\ last.before.state = "END") =>
              last.evs = <<>> /\ last.ret = Len(last.buf)

AfterEndWitness ==
    /\ \E j \in 1..Len(parts[1].trail) : parts[1].trail[j] = LOWER_X
    /\ offered = Len(body)
    /\ last.op = "write" /\ Len(last.buf) < Len(parts[1].trail)
    /\ last.before.state = "END"
    /\ mp.state = "END"

----------------------------------------------------------------------------
(* MultipartParser: errors in the opening boundary and in the headers.      *)

\* the offset of the first byte of body at or after t that satisfies P, or
\* Len(body) when there is none
FirstAt(t, P(_)) ==
    LET ks == {k \in t..(Len(body) - 1) : P(At(body, k))}
    IN  IF ks = {} THEN Len(body) ELSE CHOOSE k \in ks : \A u \in ks : k <= u

\* where the opening boundary starts: after the leading CR and LF bytes
OpenStart == FirstAt(0, LAMBDA c : c \notin {CR, LF})

\* the offset of the first byte that is not the one the opening boundary line
\* '--' token CR LF has at its place ('-' is allowed for the CR), or -1
OpeningFault ==
    LET E == <<HYPHEN, HYPHEN>> \o Token
        WrongAt(k) ==
          /\ OpenStart + k < Len(body)
          /\ IF k < Len(E) THEN At(body, OpenStart + k) # E[k + 1]
             ELSE IF k = Len(E) THEN At(body, OpenStart + k) \notin {CR, HYPHEN}
             ELSE At(body, OpenStart + k - 1) = CR /\ At(body, OpenStart + k) # LF
        ks == {k \in 0..(Len(E) + 1) : WrongAt(k)}
    IN  IF ks = {} THEN -1
        ELSE OpenStart + (CHOOSE k \in ks : \A u \in ks : k <= u)

\* C21: a byte that differs from '--' token, a byte other than CR or '-'
\* after the token, or a byte other than LF after that CR raises
\* MultipartParseError with the chunk-relative offset of that byte, under
\* every chunking, and no part_begin (no event at all) has been emitted;
\* without such a byte nothing is raised within the opening boundary line.
StartBoundaryErrors ==
    /\ OpeningFault # -1 =>
          /\ raised # <<>> <=> offered > OpeningFault
          /\ raised # <<>> => raised[1] = OpeningFault - retsum
          /\ log = <<>>
    /\ OpeningFault = -1 =>
          /\ raised # <<>> => raised[1] + retsum > OpenStart + Len(Token) + 2
          /\ Named(log, "part_begin") # <<>> =>
                offered >= OpenStart + Len(OpenBoundary)

StartBoundaryErrorsWitness ==
    /\ IsPrefix(<<HYPHEN, HYPHEN>> \o Token \o <<CR>>, body)
    /\ OpeningFault = Len(Token) + 3
    /\ raised = <<0>>
    /\ retsum = OpeningFault

\* the HTTP token bytes: letters, digits and ! # $ % & ' * + - . ^ _ ` | ~
HttpToken(c) ==
    \/ c \in 65..90 \/ c \in 97..122 \/ c \in 48..57
    \/ c \in {33, 35, 36, 37, 38, 39, 42, 43, 45, 46, 94, 95, 96, 124, 126}

\* the offset of the first offending byte of the header lines that start at
\* t, or -1: a name byte that is no token byte (a CR that opens the line is
\* the empty line), ':' as the first byte of a line, a byte other than LF
\* after the CR of a value or of the empty line
RECURSIVE HeaderFault(_)
HeaderFault(t) ==
    IF t >= Len(body) THEN -1
    ELSE IF At(body, t) = CR THEN
      IF t + 1 < Len(body) /\ At(body, t + 1) # LF THEN t + 1 ELSE -1
    ELSE
      LET e == FirstAt(t, LAMBDA c : ~HttpToken(c))
          r == FirstAt(e + 1, LAMBDA c : c = CR)
      IN  IF e = Len(body) THEN -1
          ELSE IF At(body, e) # COLON \/ e = t THEN e
          ELSE IF r + 1 >= Len(body) THEN -1
          ELSE IF At(body, r + 1) # LF THEN r + 1
          ELSE HeaderFault(r + 2)

\* C22: in the header block of the first part the first offending byte (a
\* name byte outside the token set, ':' first in a line, a byte other than
\* LF after the CR of a value or of the empty line) raises
\* MultipartParseError with its chunk-relative offset, under every chunking;
\* header lines without such a byte, names of token bytes among them, raise
\* nothing.
HeaderErrors ==
    IsPrefix(OpenBoundary, body) =>
        LET f == HeaderFault(Len(OpenBoundary))
        IN  /\ f # -1 =>
                  /\ raised # <<>> <=> offered > f
                  /\ raised # <<>> => raised[1] = f - retsum
            /\ f = -1 => raised = <<>>

HeaderErrorsWitness ==
    /\ IsPrefix(OpenBoundary \o <<LOWER_B, COLON>>, body)
    /\ HeaderFault(Len(OpenBoundary)) = Len(body) - 1
    /\ raised = <<0>>

----------------------------------------------------------------------------
(* FormParser: an unknown Content-Transfer-Encoding.                        *)

\* the first part's Content-Transfer-Encoding is none of the five known
UnknownCte ==
    /\ parts[1].cte # None
    /\ parts[1].cte[1] \notin {CTE_7BIT, CTE_8BIT, CTE_BINARY, CTE_BASE64,
                               CTE_QUOTED_PRINTABLE}

\* C23: for a part whose Content-Transfer-Encoding is none of 7bit, 8bit,
\* binary, base64, quoted-printable: with UPLOAD_ERROR_ON_BAD_CTE the write
\* that completes the part's headers raises FormParserError and no on_field
\* or on_file is called for the part; without it nothing is raised and the
\* part's body reaches the Field or File, and its callback, undecoded.
BadCte ==
    UnknownCte =>
      IF form.UPLOAD_ERROR_ON_BAD_CTE
      THEN /\ form.err = (IF offered >= Len(RenderUpTo(parts, 1))
                          THEN <<"FormParserError">> ELSE <<>>)
           /\ calls = <<>>
           /\ \A k \in 1..Len(objs) : objs[k].ops = <<>>
      ELSE /\ form.err = <<>> /\ raised = <<>>
           /\ offered >= Len(RenderUpTo(parts, 1)) =>
                 /\ Len(objs) >= 1
                 /\ objs[1].is_file = parts[1].is_file
                 /\ IsPrefix(objs[1].value, parts[1].payload)
           /\ Len(Named(log, "part_end")) >= 1 =>
                 /\ objs[1].value = parts[1].payload
                 /\ calls[1].cb = (IF parts[1].is_file THEN "on_file" ELSE "on_field")
                 /\ calls[1].obj = 1
                 /\ calls[1].content = parts[1].payload

BadCteWitness ==
    /\ UnknownCte
    /\ form.UPLOAD_ERROR_ON_BAD_CTE
    /\ form.err = <<"FormParserError">>
    /\ parts[1].is_file
    /\ Len(parts) = 2
    /\ offered = Len(body)

----------------------------------------------------------------------------
(* parse_form.                                                              *)

RECURSIVE Concat(_)
Concat(ss) == IF ss = <<>> THEN <<>> ELSE Head(ss) \o Concat(Tail(ss))

\* the bytes parse_form has written to the FormParser, and the bytes it is to
\* write: the first min(Content-Length, stream length), or the whole stream
Fed == Concat([i \in 1..Len(Named(log, "write")) |-> Named(log, "write")[i].data])
ToFeed ==
    IF parts[1].content_length = None THEN body
    ELSE SubSeq(body, 1, Min(parts[1].content_length[1], Len(body)))

\* every chunk written is at most chunk_size bytes, nothing past
\* Content-Length has been read, finalize is called at most once and last
FedInOrder ==
    /\ IsPrefix(Fed, ToFeed)
    /\ \A i \in 1..Len(log) :
          /\ log[i].name = "write" => Len(log[i].data) <= parts[1].chunk_size
          /\ log[i].name = "finalize" => i = Len(log)
    /\ parts[1].content_length # None => offered <= Max(0, parts[1].content_length[1])

\* C24: parse_form terminates for every finite stream and every
\* Content-Length; it writes to the FormParser exactly the first
\* min(Content-Length, stream length) bytes of the stream (the whole stream
\* without Content-Length), in order, in chunks of at most chunk_size bytes,
\* reads nothing past Content-Length, and calls finalize once, after the last
\* write.
ParseFormContract ==
    /\ <>(last.op = "finalize")
    /\ [](FedInOrder)
    /\ [](last.op = "finalize" =>
            Fed = ToFeed /\ Len(Named(log, "finalize")) = 1)

----------------------------------------------------------------------------
(* The decoders.                                                            *)

IsBase64 == form.writer.kind = "base64"
IsQuotedPrintable == form.writer.kind = "quoted-printable"

\* the chunks written to the decoder so far, and where each one ended
Chunks == [i \in 1..Len(Named(log, "write")) |-> Named(log, "write")[i].data]
WriteEnds == {Len(Concat(SubSeq(Chunks, 1, k))) : k \in 1..Len(Chunks)}

\* the number of calls op made on the underlying object
OpCount(op) == Len(SelectSeq(objs[1].ops, LAMBDA o : o = op))

\* C25: Base64Decoder.write(buf) returns len(buf) on every successful call,
\* whatever number of bytes (0 to 3) is carried in the cache from earlier
\* writes.
Base64WriteReturnsLen ==
    (IsBase64 /\ last.op = "write" /\ raised = <<>>) =>
        /\ Len(last.before.cache) \in 0..3
        /\ last.ret = Len(last.buf)

\* C26: for every byte string x and every partition of base64_encode(x) into
\* chunks, writing the chunks to a Base64Decoder and finalizing delivers to
\* the underlying object exactly x, as the concatenation of its writes, and
\* neither a write nor finalize raises.
Base64RoundTrip ==
    (IsBase64 /\ parts[1].plain # None) =>
        /\ raised = <<>>
        /\ last.op = "finalize" => Concat(objs[1].writes) = parts[1].plain[1]

Base64RoundTripWitness ==
    /\ IsBase64 /\ parts[1].plain # None
    /\ last.op = "finalize"
    /\ Len(parts[1].plain[1]) = 4
    /\ Len(Chunks) = 3
    /\ \A i \in 1..3 : Len(Chunks[i]) % 4 # 0

\* C27: Base64Decoder.finalize raises DecodeError iff the cache is non-empty,
\* i.e. iff the number of bytes written is not a multiple of 4, and then does
\* not finalize the underlying object; otherwise it calls the underlying
\* object's finalize exactly once when it has one; close calls the underlying
\* object's close when it has one.
Base64FinalizeAndClose ==
    /\ (IsBase64 /\ last.op = "finalize") =>
          /\ raised # <<>> <=> last.before.cache # <<>>
          /\ raised # <<>> <=> offered % 4 # 0
          /\ OpCount("finalize") =
               IF raised = <<>> /\ objs[1].has_finalize THEN 1 ELSE 0
    /\ (IsBase64 /\ last.op = "close") =>
          /\ OpCount("close") = IF objs[1].has_close THEN 1 ELSE 0
          /\ OpCount("close") = 1 => objs[1].ops[Len(objs[1].ops)] = "close"

Base64FinalizeRaisesWitness ==
    /\ IsBase64 /\ last.op = "close"
    /\ raised # <<>> /\ offered % 4 = 1 /\ offered > 4
    /\ objs[1].has_finalize /\ objs[1].has_close
    /\ Named(log, "finalize") # <<>>

\* the base64 alphabet, without the padding character
Base64Alphabet == (65..90) \cup (97..122) \cup (48..57) \cup {43, 47}

\* the complete 4-byte groups the last write had to decode
GroupsOfLastWrite ==
    SubSeq(last.before.cache \o last.buf, 1,
           (Len(last.before.cache \o last.buf) \div 4) * 4)

\* C28: Base64Decoder.write raises DecodeError whenever a complete 4-byte
\* group of the stream (cache plus new data) contains a byte that is neither
\* in the base64 alphabet nor padding, and forwards no bytes of the failing
\* write to the underlying object; such a byte is never silently skipped.
ForeignByteRaises ==
    (/\ IsBase64 /\ last.op = "write"
     /\ \E i \in 1..Len(GroupsOfLastWrite) :
          GroupsOfLastWrite[i] \notin Base64Alphabet \cup {EQUALS})
      => raised # <<>> /\ last.evs = <<>>

\* the offsets of body that lie inside an escape: '=' and LF make one of two
\* bytes, '=' and any two other bytes one of three
RECURSIVE InsideEscape(_)
InsideEscape(i) ==
    IF i >= Len(body) THEN {}
    ELSE IF At(body, i) # EQUALS THEN InsideEscape(i + 1)
    ELSE IF At(body, i + 1) = LF THEN {i + 1} \cup InsideEscape(i + 2)
    ELSE {i + 1, i + 2} \cup InsideEscape(i + 3)

\* what one write of the whole of body, and finalize, hand to the underlying
\* object
QPSingleWrite ==
    LET w == QuotedPrintableDecoderWrite(QuotedPrintableDecoder(1), body)
    IN  Concat(w.out \o QuotedPrintableDecoderFinalize(w.writer).out)

\* C29: for quoted-printable input in which an escape ('=XX', '=CRLF' or
\* '=LF') is split across two writes, QuotedPrintableDecoder followed by
\* finalize delivers the same decoded bytes as a single write of the whole
\* input; after every write the cache holds at most 2 bytes and is non-empty
\* only when one of the last two bytes seen is '='; finalize decodes and
\* forwards the residue before it finalizes the underlying object.
QPSplitEscape ==
    IsQuotedPrintable =>
      /\ last.op = "write" =>
           /\ Len(form.writer.cache) <= 2
           /\ form.writer.cache # <<>> =>
                EQUALS \in {body[i] : i \in Max(1, offered - 1)..offered}
      /\ last.op = "finalize" =>
           /\ form.writer.cache = <<>>
           /\ last.before.cache # <<>> =>
                /\ last.evs = <<a2b_qp(last.before.cache)>>
                /\ objs[1].writes[Len(objs[1].writes)] = last.evs[1]
           /\ objs[1].has_finalize =>
                /\ OpCount("finalize") = 1
                /\ objs[1].ops[Len(objs[1].ops)] = "finalize"
           /\ WriteEnds \cap InsideEscape(0) # {} =>
                Concat(objs[1].writes) = QPSingleWrite

----------------------------------------------------------------------------
(* Field.                                                                   *)

\* C30: after Field.finalize no further data write is accepted: for any
\* sequence of writes, finalize, then further writes, the Field's value stays
\* the value it had at finalize.
FieldFrozenAfterFinalize ==
    \A i \in 1..Len(log) : \A j \in (i + 1)..Len(log) :
        (log[i].name = "finalize" /\ log[j].name = "write") =>
            log[j].value = log[i].value

----------------------------------------------------------------------------
(* File.                                                                    *)

TheFile == objs[1]

FileBefore == last.before[1]

\* bytes-written exceeds MAX_MEMORY_FILE_SIZE
Exceeds(f) ==
    /\ f.config.MAX_MEMORY_FILE_SIZE # None
    /\ f.bytes_written > f.config.MAX_MEMORY_FILE_SIZE[1]

\* C31: a File's in_memory flag starts true, turns false exactly at the
\* write after which bytes-written first exceeds MAX_MEMORY_FILE_SIZE (a
\* write leaves it true while bytes-written <= MAX_MEMORY_FILE_SIZE), and
\* never returns to true under any sequence of write, flush_to_disk and
\* finalize; flush_to_disk on an already spilled File changes nothing and
\* keeps the same file object.
InMemoryFlag ==
    /\ last.op = "none" => TheFile.in_memory
    /\ last.op = "write" =>
         /\ FileBefore.in_memory /\ Exceeds(TheFile) => ~TheFile.in_memory
         /\ FileBefore.in_memory /\ ~Exceeds(TheFile) => TheFile.in_memory
    /\ last.op # "none" => (~FileBefore.in_memory => ~TheFile.in_memory)
    /\ last.op = "flush_to_disk" /\ ~FileBefore.in_memory => TheFile = FileBefore

\* all the bytes written to the File, in write order
Written == Concat([i \in 1..Len(Named(log, "write")) |-> Named(log, "write")[i].data])

\* C32: after a File has spilled, its file object contains exactly the bytes
\* written before the spill followed by all bytes written afterwards, in
\* write order, its write position is at the end of that content, and size
\* equals the total number of bytes written.
SpillKeepsContent ==
    ~TheFile.in_memory =>
        /\ TheFile.fileobj.path # None
        /\ TheFile.fileobj.content = Written
        /\ TheFile.fileobj.pos = Len(Written)
        /\ TheFile.bytes_written = Len(Written)

SpillKeepsContentWitness ==
    /\ ~TheFile.in_memory
    /\ last.op = "write" /\ ~FileBefore.in_memory
    /\ TheFile.config.MAX_MEMORY_FILE_SIZE = <<2>>
    /\ Written = <<49, 50, 50, 49>>

\* the declared filename without its directories: what follows the last '/'
\* or '\'
Basename(n) == SubSeq(n, Max(RFind(n, 47), RFind(n, BACKSLASH)) + 2, Len(n))

\* C33: when UPLOAD_DIR and UPLOAD_KEEP_FILENAME are both set, a spilled File
\* is created directly inside UPLOAD_DIR under the basename of the declared
\* filename (with its extension when UPLOAD_KEEP_EXTENSIONS is set, without
\* it otherwise): a leading '/' and '/'- or '\'-separated directories are
\* stripped, so no declared filename places the file outside UPLOAD_DIR.
SpilledInsideUploadDir ==
    (/\ ~TheFile.in_memory
     /\ TheFile.config.UPLOAD_DIR # None
     /\ TheFile.config.UPLOAD_KEEP_FILENAME) =>
        TheFile.fileobj.path =
          <<TheFile.config.UPLOAD_DIR[1] \o <<47>>
              \o (IF TheFile.config.UPLOAD_KEEP_EXTENSIONS
                  THEN Basename(TheFile.file_name[1])
                  ELSE splitext(Basename(TheFile.file_name[1])).base)>>

----------------------------------------------------------------------------
(* parse_options_header.                                                    *)

\* s occurs in t as a run of consecutive bytes
OccursIn(s, t) == \E i \in 0..(Len(t) - Len(s)) : SubSeq(t, i + 1, i + Len(s)) = s

\* A-Z to a-z, and the bytes str.strip() removes at both ends
LowerCased(s) == \A k \in 1..Len(s) : s[k] \notin 65..90
Trimmed(s) == s = <<>> \/ (s[1] \notin {9, 10, 11, 12, 13, 32} /\ s[Len(s)] \notin {9, 10, 11, 12, 13, 32})

\* C34: parse_options_header returns the main value lowercased and
\* whitespace-trimmed and every option key lowercased, both for a header
\* without ';' and for a header with parameters; empty or null input returns
\* (b'', {}); option values keep their bytes and case.
OptionsHeaderNormalised ==
    last.op = "parse_options_header" =>
        LET r == last.evs[1]
        IN  /\ (parts[1].value = None \/ body = <<>>) =>
                  r = [ctype |-> <<>>, options |-> <<>>]
            /\ LowerCased(r.ctype) /\ Trimmed(r.ctype)
            /\ \A k \in 1..Len(r.options) :
                  /\ LowerCased(r.options[k][1])
                  /\ OccursIn(r.options[k][2], body)

----------------------------------------------------------------------------
(* The order of the events of MultipartParser.                              *)

\* one event read by the grammar
\*   ( part_begin ( header_begin header_field+ header_value* header_end )*
\*     headers_finished part_data* part_end )* end
\* s is where the reading stands; "reject" when the event cannot come there
GrammarStep(s, name) ==
    IF s = "top" /\ name = "part_begin" THEN "headers"
    ELSE IF s = "top" /\ name = "end" THEN "done"
    ELSE IF s = "headers" /\ name = "header_begin" THEN "header_begin"
    ELSE IF s = "headers" /\ name = "headers_finished" THEN "data"
    ELSE IF s \in {"header_begin", "header_field"} /\ name = "header_field"
      THEN "header_field"
    ELSE IF s \in {"header_field", "header_value"} /\ name = "header_value"
      THEN "header_value"
    ELSE IF s \in {"header_field", "header_value"} /\ name = "header_end" THEN "headers"
    ELSE IF s = "data" /\ name = "part_data" THEN "data"
    ELSE IF s = "data" /\ name = "part_end" THEN "top"
    ELSE "reject"

RECURSIVE GrammarRun(_, _, _)
GrammarRun(s, evs, k) ==
    IF k > Len(evs) THEN s ELSE GrammarRun(GrammarStep(s, evs[k].name), evs, k + 1)

\* C35: the events of MultipartParser always form a prefix of the grammar:
\* header_begin once per header line, followed by exactly one header_end
\* before the next header_begin or headers_finished; part_begin and part_end
\* alternate, part_begin first; end at most once, directly after a part_end
\* or for a body without parts, and no event after it.
MultipartEventOrder == GrammarRun("top", log, 1) # "reject"

MultipartEventOrderWitness ==
    /\ GrammarRun("top", log, 1) = "done"
    /\ Len(Named(log, "header_end")) = 1
    /\ Len(Named(log, "part_data")) = 1
    /\ Len(Named(log, "part_end")) = 1

\* what the headers of part k alone ask for
OwnHeaders(part, k) ==
    [is_file |-> part.disp /\ part.is_file,
     field_name |-> IF part.disp THEN <<PartName(k)>> ELSE None,
     file_name |-> IF part.disp /\ part.is_file THEN <<PartFileName>> ELSE None,
     decoder |-> IF part.cte = None THEN "direct" ELSE "base64"]

\* C36: once the headers of a part are finished, the Field or File made for
\* it, its field name, its file name and the writer its data goes through
\* are those the part's own headers ask for, whatever the parts before it
\* declared
PartFromOwnHeaders ==
    (raised = <<>> /\ form.err = <<>> /\ Len(objs) > 0) =>
      LET k == Len(objs)
      IN  OwnHeaders(parts[k], k)
            = [is_file |-> objs[k].is_file,
               field_name |-> objs[k].field_name,
               file_name |-> objs[k].file_name,
               decoder |-> form.writer.kind]

\* the last index bytes of the part bytes received
Withheld == Slice(Region, Len(Region) - mp.index, Len(Region))

\* C37: when a write returns in PART_DATA inside the first part, the part
\* bytes not yet delivered are the last index bytes received; they are the
\* first index bytes of CRLF "--" token followed by CR, with PART_BOUNDARY
\* set once the CR is among them, or by '-', with LAST_BOUNDARY set once the
\* '-' is among them; index is at most len(CRLF "--" token) + 1, the
\* part_data mark is -index, and every byte before them has been delivered.
BoundedWithholding ==
    (mp.state = "PART_DATA" /\ raised = <<>> /\ PartDataStart >= 0 /\ ~FirstPartEnded) =>
        /\ mp.index <= Len(Delimiter) + 1
        /\ mp.index <= Len(Region)
        /\ mp.marks.part_data = <<-mp.index>>
        /\ FirstPartData = Slice(Region, 0, Len(Region) - mp.index)
        /\ \/ /\ IsPrefix(Withheld, Delimiter \o <<CR>>)
              /\ mp.index = Len(Delimiter) + 1 => HasFlag(mp.flags, FLAG_PART_BOUNDARY)
           \/ /\ IsPrefix(Withheld, Delimiter \o <<HYPHEN>>)
              /\ mp.index = Len(Delimiter) + 1 => HasFlag(mp.flags, FLAG_LAST_BOUNDARY)

\* a write returned with the whole delimiter and the '-' after it withheld,
\* after part data that held a false candidate
BoundedWithholdingWitness ==
    /\ mp.state = "PART_DATA"
    /\ raised = <<>>
    /\ ~FirstPartEnded
    /\ mp.index = Len(Delimiter) + 1
    /\ Withheld = Delimiter \o <<HYPHEN>>
    /\ FirstPartData # <<>>

\* C38: a write that raises leaves the parser as it was before the call:
\* state, index, flags, marks and _current_size of a MultipartParser, and
\* state, _found_sep and _current_size of a QuerystringParser
RaisingWriteKeepsState ==
    [][(raised = <<>> /\ raised' # <<>>) =>
          /\ mp'.state = mp.state
          /\ mp'.index = mp.index
          /\ mp'.flags = mp.flags
          /\ mp'.marks = mp.marks
          /\ mp'.current_size = mp.current_size
          /\ qs'.state = qs.state
          /\ qs'.found_sep = qs.found_sep
          /\ qs'.current_size = qs.current_size]_vars

\* one event read by the grammar
\*   ( field_start field_name* field_data* field_end )*
\* followed by an optional field_end and then end
QSGrammarStep(s, name) ==
    IF s = "top" /\ name = "field_start" THEN "name"
    ELSE IF s = "name" /\ name = "field_name" THEN "name"
    ELSE IF s \in {"name", "data"} /\ name = "field_data" THEN "data"
    ELSE IF s \in {"name", "data"} /\ name = "field_end" THEN "top"
    ELSE IF s \in {"top", "name", "data"} /\ name = "end" THEN "done"
    ELSE "reject"

RECURSIVE QSGrammarRun(_, _, _)
QSGrammarRun(s, evs, k) ==
    IF k > Len(evs) THEN s ELSE QSGrammarRun(QSGrammarStep(s, evs[k].name), evs, k + 1)

\* C39: the events of QuerystringParser always form a prefix of the grammar:
\* no field_end without an open field_start, no two field_start without a
\* field_end between them, no field_name after a field_data of the same
\* field; end comes from finalize alone and nothing follows it.
QuerystringEventOrder ==
    /\ QSGrammarRun("top", log, 1) # "reject"
    /\ Named(log, "end") # <<>> => last.op = "finalize"

\* finalize closed the second of two fields, after a name and data were
\* reported
QuerystringEventOrderWitness ==
    /\ QSGrammarRun("top", log, 1) = "done"
    /\ last.op = "finalize"
    /\ Len(last.evs) = 2
    /\ Len(Named(log, "field_start")) = 2
    /\ Named(log, "field_name") # <<>>
    /\ Named(log, "field_data") # <<>>

\* the bytes the writes accepted, in order
RECURSIVE AcceptedBytes(_)
AcceptedBytes(k) == IF k = 0 THEN <<>> ELSE AcceptedBytes(k - 1) \o log[k].data

\* C40: finalize of an application/octet-stream FormParser, after any
\* writes or none, raises nothing, has handed exactly one File to on_file,
\* holding the accepted bytes in order, and then called on_end once.
OctetFinalizeDelivers ==
    last.op = "finalize" =>
        /\ raised = <<>>
        /\ Len(calls) = 2
        /\ calls[1].cb = "on_file"
        /\ calls[1].content = AcceptedBytes(Len(log))
        /\ calls[2].cb = "on_end"

====
